---- MODULE Spec2Model ----
(***************************************************************************)
(* A model of pdslib's private data service as embedded in Firefox's       *)
(* dom/privateattribution: pure-DP budget filters, the filter storage, the *)
(* event storage, the PPA histogram request, and the epoch loop with its   *)
(* two-phase budget deduction (compute_report) and passive privacy loss.   *)
(*                                                                         *)
(* Budgets, values and noise scales are integers, chosen so that every     *)
(* division of the model is exact.                                         *)
(***************************************************************************)
EXTENDS Integers, Sequences, FiniteSets, TLC

(***************************************************************************)
(* Bounds of the model.                                                    *)
(***************************************************************************)
\* Epoch ids range over 1..MaxEpoch.
MaxEpoch == 2
\* At most MaxEvents events are ever registered.
MaxEvents == 2
\* At most MaxCalls service calls (reports, passive losses, direct storage
\* calls) are made in one behaviour.
MaxCalls == 2

\* The lists of (event, value) pairs given to the histogram engine hold at
\* most MaxPairs pairs, of values in 1..MaxValue.
MaxPairs == 3
MaxValue == 3

Epochs == 1..MaxEpoch

\* The element of a one-element set.  TheOnly({e : x \in {v}}) is e with x
\* bound to v: the model writes the `let` bindings of the code this way where
\* the bound value is the result of a call, the innermost binding first.
TheOnly(S) == CHOOSE x \in S : TRUE

(***************************************************************************)
(* PureDPBudget: Infinite or Epsilon(f64).                                 *)
(***************************************************************************)
Infinite == [inf |-> TRUE, eps |-> 0]
Epsilon(n) == [inf |-> FALSE, eps |-> n]

\* Order on budgets, Infinite on top (used by the properties; the code
\* compares budgets only inside the filter).
BudgetLeq(a, b) == b.inf \/ (~a.inf /\ a.eps <= b.eps)

(***************************************************************************)
(* PureDPBudgetFilter: a filter is its remaining budget.                   *)
(***************************************************************************)
Filter_new(capacity) == capacity

Mut_Filter_can_consume_Lenient(remaining, budget) ==
    IF remaining.inf THEN TRUE
    ELSE IF ~budget.inf THEN budget.eps <= remaining.eps + 1
    ELSE FALSE

Mut_Filter_can_consume_Strict(remaining, budget) ==
    IF remaining.inf THEN TRUE
    ELSE IF ~budget.inf THEN budget.eps < remaining.eps
    ELSE FALSE

Filter_can_consume(remaining, budget) ==
    IF remaining.inf THEN TRUE
    ELSE IF ~budget.inf THEN budget.eps <= remaining.eps
    ELSE FALSE

Mut_Filter_try_consume_NoCheck(remaining, budget) ==
    IF remaining.inf THEN [status |-> "Continue", filter |-> remaining]
    ELSE IF ~budget.inf
         THEN [status |-> "Continue",
               filter |-> Epsilon(remaining.eps - budget.eps)]
         ELSE [status |-> "OutOfBudget", filter |-> remaining]

Mut_Filter_try_consume_Refund(remaining, budget) ==
    IF remaining.inf THEN [status |-> "Continue", filter |-> remaining]
    ELSE IF ~budget.inf
         THEN IF budget.eps <= remaining.eps
              THEN [status |-> "Continue",
                    filter |-> Epsilon(remaining.eps + budget.eps)]
              ELSE [status |-> "OutOfBudget", filter |-> remaining]
         ELSE [status |-> "OutOfBudget", filter |-> remaining]

Mut_Filter_try_consume_RejectsExact(remaining, budget) ==
    IF remaining.inf THEN [status |-> "Continue", filter |-> remaining]
    ELSE IF ~budget.inf
         THEN IF budget.eps < remaining.eps
              THEN [status |-> "Continue",
                    filter |-> Epsilon(remaining.eps - budget.eps)]
              ELSE [status |-> "OutOfBudget", filter |-> remaining]
         ELSE [status |-> "OutOfBudget", filter |-> remaining]

Mut_Filter_try_consume_DrainsOnRefusal(remaining, budget) ==
    IF remaining.inf THEN [status |-> "Continue", filter |-> remaining]
    ELSE IF ~budget.inf
         THEN IF budget.eps <= remaining.eps
              THEN [status |-> "Continue",
                    filter |-> Epsilon(remaining.eps - budget.eps)]
              ELSE [status |-> "OutOfBudget", filter |-> Epsilon(0)]
         ELSE [status |-> "OutOfBudget", filter |-> Epsilon(0)]

Mut_Filter_try_consume_AcceptsInfinite(remaining, budget) ==
    IF remaining.inf THEN [status |-> "Continue", filter |-> remaining]
    ELSE IF ~budget.inf
         THEN IF budget.eps <= remaining.eps
              THEN [status |-> "Continue",
                    filter |-> Epsilon(remaining.eps - budget.eps)]
              ELSE [status |-> "OutOfBudget", filter |-> remaining]
         ELSE [status |-> "Continue", filter |-> Epsilon(0)]

\* Returns the status and the filter after the call.
Filter_try_consume(remaining, budget) ==
    IF remaining.inf THEN [status |-> "Continue", filter |-> remaining]
    ELSE IF ~budget.inf
         THEN IF budget.eps <= remaining.eps
              THEN [status |-> "Continue",
                    filter |-> Epsilon(remaining.eps - budget.eps)]
              ELSE [status |-> "OutOfBudget", filter |-> remaining]
         ELSE [status |-> "OutOfBudget", filter |-> remaining]

Filter_remaining_budget(remaining) == remaining

(***************************************************************************)
(* FilterId and StaticCapacities.                                          *)
(***************************************************************************)
Nc(e, u) == [kind |-> "Nc", epoch |-> e, uri |-> u]
C(e) == [kind |-> "C", epoch |-> e, uri |-> ""]
QTrigger(e, u) == [kind |-> "QTrigger", epoch |-> e, uri |-> u]
QSource(e, u) == [kind |-> "QSource", epoch |-> e, uri |-> u]

StaticCapacities_new(nc, c, qtrigger, qsource) ==
    [nc |-> nc, c |-> c, qtrigger |-> qtrigger, qsource |-> qsource]

capacity(caps, filter_id) ==
    CASE filter_id.kind = "Nc" -> caps.nc
      [] filter_id.kind = "C" -> caps.c
      [] filter_id.kind = "QTrigger" -> caps.qtrigger
      [] filter_id.kind = "QSource" -> caps.qsource

(***************************************************************************)
(* FilterStorage: `fs` is the map of stored filters (a function whose      *)
(* domain is the set of stored ids), `caps` the capacities it was built    *)
(* with.                                                                   *)
(***************************************************************************)
set_filter(fs, filter_id, filter) ==
    [f \in (DOMAIN fs) \cup {filter_id} |->
        IF f = filter_id THEN filter ELSE fs[f]]

Mut_get_filter_or_new_Empty(fs, caps, filter_id) ==
    IF filter_id \in DOMAIN fs THEN fs[filter_id]
    ELSE Filter_new(Epsilon(0))

get_filter_or_new(fs, caps, filter_id) ==
    IF filter_id \in DOMAIN fs THEN fs[filter_id]
    ELSE Filter_new(capacity(caps, filter_id))

Storage_can_consume(fs, caps, filter_id, budget) ==
    IF Filter_can_consume(get_filter_or_new(fs, caps, filter_id), budget)
    THEN "Continue" ELSE "OutOfBudget"

Mut_Storage_try_consume_PersistsOnContinue(fs, caps, filter_id, budget) ==
    TheOnly({[status |-> r.status,
              fs |-> IF r.status = "Continue"
                     THEN set_filter(fs, filter_id, r.filter) ELSE fs] :
        r \in {Filter_try_consume(get_filter_or_new(fs, caps, filter_id),
                                  budget)}})

\* Returns the status and the storage after the call: the filter is written
\* back whatever the status.
Storage_try_consume(fs, caps, filter_id, budget) ==
    TheOnly({[status |-> r.status, fs |-> set_filter(fs, filter_id, r.filter)] :
        r \in {Filter_try_consume(get_filter_or_new(fs, caps, filter_id),
                                  budget)}})

remaining_budget(fs, caps, filter_id) ==
    IF filter_id \in DOMAIN fs THEN Filter_remaining_budget(fs[filter_id])
    ELSE capacity(caps, filter_id)

(***************************************************************************)
(* Events and the event storage.  `es` maps every epoch to the sequence of *)
(* its events in insertion order (an epoch never written to holds none).   *)
(***************************************************************************)
PpaEvent(epoch, index, source, triggers, queriers, data) ==
    [epoch_number |-> epoch, histogram_index |-> index, source_uri |-> source,
     trigger_uris |-> triggers, querier_uris |-> queriers, filter_data |-> data]

add_event(es, event) ==
    [es EXCEPT ![event.epoch_number] = Append(@, event)]

events_for_epoch(es, epoch_id) == es[epoch_id]

(***************************************************************************)
(* Small helpers over sequences and maps.                                  *)
(***************************************************************************)
Range(s) == {s[i] : i \in DOMAIN s}

EmptyMap == [x \in {} |-> 0]

MapInsert(m, k, v) == [x \in (DOMAIN m) \cup {k} |-> IF x = k THEN v ELSE m[x]]

MapRemove(m, k) == [x \in (DOMAIN m) \ {k} |-> m[x]]

RECURSIVE SumValues(_)
SumValues(m) ==
    IF DOMAIN m = {} THEN 0
    ELSE LET k == CHOOSE x \in DOMAIN m : TRUE
         IN m[k] + SumValues(MapRemove(m, k))

(***************************************************************************)
(* PpaRelevantEventSelector and RelevantEvents.                            *)
(***************************************************************************)
\* `matching` stands for the is_matching_event closure: the set of the
\* filter_data values it accepts.
Mut_is_relevant_event_AnyQuerier(selector, event) ==
    /\ event.source_uri \in Range(selector.uris.source_uris)
    /\ \E u \in Range(selector.uris.querier_uris) : u \in event.querier_uris
    /\ selector.uris.trigger_uri \in event.trigger_uris
    /\ event.filter_data \in selector.matching

is_relevant_event(selector, event) ==
    LET source_match == event.source_uri \in Range(selector.uris.source_uris)
        querier_match == \A u \in Range(selector.uris.querier_uris) :
                            u \in event.querier_uris
        trigger_match == selector.uris.trigger_uri \in event.trigger_uris
    IN source_match /\ querier_match /\ trigger_match
       /\ event.filter_data \in selector.matching

from_event_storage(es, epoch_ids, selector) ==
    [e \in Range(epoch_ids) |->
        LET Rel(ev) == is_relevant_event(selector, ev)
        IN SelectSeq(events_for_epoch(es, e), Rel)]

for_epoch(rel, epoch_id) ==
    IF epoch_id \in DOMAIN rel THEN rel[epoch_id] ELSE <<>>

sources_for_epoch(rel, epoch_id) ==
    {ev.source_uri : ev \in Range(for_epoch(rel, epoch_id))}

Mut_drop_epoch_KeepsEvents(rel, epoch_id) == rel

drop_epoch(rel, epoch_id) == MapRemove(rel, epoch_id)

(***************************************************************************)
(* PpaHistogramRequest and the histogram report.                           *)
(***************************************************************************)
\* (start_epoch..=end_epoch).rev()
epoch_ids(request) ==
    [i \in 1..(IF request.end_epoch >= request.start_epoch
               THEN request.end_epoch - request.start_epoch + 1 ELSE 0) |->
        request.end_epoch + 1 - i]

report_uris(request) == request.selector.uris

noise_scale(request) == request.laplace_noise_scale

\* Last touch over one epoch: the events from the most recent backwards, up
\* to the first one with a valid bucket key.
RECURSIVE last_valid_in_epoch(_, _, _)
last_valid_in_epoch(request, evs, i) ==
    IF i = 0 THEN <<>>
    ELSE IF evs[i].histogram_index < request.histogram_size
         THEN <<<<evs[i], request.attributable_value>>>>
         ELSE last_valid_in_epoch(request, evs, i - 1)

RECURSIVE Mut_event_values_from_FirstEpochOnly(_, _, _, _)
Mut_event_values_from_FirstEpochOnly(request, rel, ids, i) ==
    IF i > Len(ids) THEN <<>>
    ELSE LET evs == for_epoch(rel, ids[i])
         IN IF Len(evs) > 0 THEN last_valid_in_epoch(request, evs, Len(evs))
            ELSE Mut_event_values_from_FirstEpochOnly(request, rel, ids, i + 1)

RECURSIVE event_values_from(_, _, _, _)
event_values_from(request, rel, ids, i) ==
    IF i > Len(ids) THEN <<>>
    ELSE LET evs == for_epoch(rel, ids[i])
             found == last_valid_in_epoch(request, evs, Len(evs))
         IN IF Len(evs) > 0 /\ Len(found) > 0 THEN found
            ELSE event_values_from(request, rel, ids, i + 1)

event_values(request, rel) ==
    event_values_from(request, rel, epoch_ids(request), 1)

bucket_key(request, event) == event.histogram_index

\* The L1 cap of the attributed histogram.
histogram_report_cap(request) == request.attributable_value

\* The accumulation loop of compute_report: stops before the first pair
\* that takes the running total over the cap.
RECURSIVE Mut_accumulate_SkipsOffending(_, _, _, _, _)
Mut_accumulate_SkipsOffending(request, values, i, total_value, bin_values) ==
    IF i > Len(values) THEN bin_values
    ELSE LET total == total_value + values[i][2]
         IN IF total > histogram_report_cap(request)
            THEN Mut_accumulate_SkipsOffending(request, values, i + 1,
                     total_value, bin_values)
            ELSE LET bin == bucket_key(request, values[i][1])
                     old == IF bin \in DOMAIN bin_values
                            THEN bin_values[bin] ELSE 0
                 IN Mut_accumulate_SkipsOffending(request, values, i + 1,
                        total, MapInsert(bin_values, bin, old + values[i][2]))

RECURSIVE accumulate(_, _, _, _, _)
accumulate(request, values, i, total_value, bin_values) ==
    IF i > Len(values) THEN bin_values
    ELSE LET total == total_value + values[i][2]
         IN IF total > histogram_report_cap(request) THEN bin_values
            ELSE LET bin == bucket_key(request, values[i][1])
                     old == IF bin \in DOMAIN bin_values
                            THEN bin_values[bin] ELSE 0
                 IN accumulate(request, values, i + 1, total,
                               MapInsert(bin_values, bin, old + values[i][2]))

filter_histogram_for_intermediary(full_histogram, intermediary_buckets) ==
    [b \in (DOMAIN full_histogram) \cap intermediary_buckets |->
        full_histogram[b]]

\* None is modelled by the record with some = FALSE.
filter_report_for_intermediary(request, report, intermediary_uri) ==
    LET mapping == request.selector.bucket_intermediary_mapping
        intermediary_buckets ==
            {b \in DOMAIN mapping : mapping[b] = intermediary_uri}
    IN IF intermediary_buckets = {} THEN [some |-> FALSE, report |-> EmptyMap]
       ELSE [some |-> TRUE,
             report |-> filter_histogram_for_intermediary(
                            report, intermediary_buckets)]

RECURSIVE insert_intermediary_reports(_, _, _, _, _)
insert_intermediary_reports(request, report, uris, i, site_to_report) ==
    IF i > Len(uris) THEN site_to_report
    ELSE LET f == filter_report_for_intermediary(request, report, uris[i])
             r == IF f.some THEN f.report ELSE EmptyMap
         IN insert_intermediary_reports(request, report, uris, i + 1,
                MapInsert(site_to_report, uris[i], r))

\* QueryComputeResult of the histogram request.
compute_histogram_report(request, rel) ==
    TheOnly({
    TheOnly({
        [bucket_uri_map |-> request.selector.bucket_intermediary_mapping,
         uri_report_map |-> insert_intermediary_reports(
             request, report, report_uris(request).intermediary_uris, 1,
             MapInsert(EmptyMap, report_uris(request).querier_uris[1],
                       report))] :
        report \in {accumulate(request, values, 1, 0, EmptyMap)}}) :
        values \in {event_values(request, rel)}})

single_epoch_individual_sensitivity(request, report) == SumValues(report)

single_epoch_source_individual_sensitivity(request, report) ==
    single_epoch_individual_sensitivity(request, report)

report_global_sensitivity(request) == 2 * histogram_report_cap(request)


(***************************************************************************)
(* Accounting: device-epoch and device-epoch-source losses.  A noise scale *)
(* below f64::EPSILON is the noise scale 0 of the model.                   *)
(***************************************************************************)
Mut_compute_epoch_loss_ZeroNoiseFinite(request, epoch_relevant_events, computed_attribution, num_epochs) ==
    IF Len(epoch_relevant_events) = 0 THEN Epsilon(0)
    ELSE LET individual_sensitivity ==
                 IF num_epochs = 1
                 THEN single_epoch_individual_sensitivity(
                          request, computed_attribution)
                 ELSE report_global_sensitivity(request)
         IN IF noise_scale(request) = 0 THEN Epsilon(individual_sensitivity)
            ELSE Epsilon(individual_sensitivity \div noise_scale(request))

compute_epoch_loss(request, epoch_relevant_events, computed_attribution, num_epochs) ==
    IF Len(epoch_relevant_events) = 0 THEN Epsilon(0)
    ELSE LET individual_sensitivity ==
                 IF num_epochs = 1
                 THEN single_epoch_individual_sensitivity(
                          request, computed_attribution)
                 ELSE report_global_sensitivity(request)
         IN IF noise_scale(request) = 0 THEN Infinite
            ELSE Epsilon(individual_sensitivity \div noise_scale(request))

Mut_compute_epoch_source_losses_NoCaseOne(request, epoch_event_sources, computed_attribution, num_epochs) ==
    LET requested_sources == report_uris(request).source_uris
        num_requested_sources == Len(requested_sources)
        sens(source) ==
            IF num_epochs = 1 /\ num_requested_sources = 1
            THEN single_epoch_source_individual_sensitivity(
                     request, computed_attribution)
            ELSE report_global_sensitivity(request)
    IN [source \in Range(requested_sources) |->
           IF noise_scale(request) = 0 THEN Infinite
           ELSE Epsilon(sens(source) \div noise_scale(request))]

compute_epoch_source_losses(request, epoch_event_sources, computed_attribution, num_epochs) ==
    LET requested_sources == report_uris(request).source_uris
        num_requested_sources == Len(requested_sources)
        sens(source) ==
            IF source \notin epoch_event_sources THEN 0
            ELSE IF num_epochs = 1 /\ num_requested_sources = 1
                 THEN single_epoch_source_individual_sensitivity(
                          request, computed_attribution)
                 ELSE report_global_sensitivity(request)
    IN [source \in Range(requested_sources) |->
           IF noise_scale(request) = 0 THEN Infinite
           ELSE Epsilon(sens(source) \div noise_scale(request))]

(***************************************************************************)
(* PrivateDataServiceCore: the filters an epoch is charged on and the      *)
(* two-phase deduction.                                                    *)
(***************************************************************************)
Mut_filters_to_consume_PerListing(epoch_id, loss, source_losses, uris) ==
    [fid \in {Nc(epoch_id, u) : u \in Range(uris.querier_uris)}
              \cup {QTrigger(epoch_id, uris.trigger_uri), C(epoch_id)}
              \cup {QSource(epoch_id, src) : src \in DOMAIN source_losses} |->
        IF fid.kind = "QSource" THEN source_losses[fid.uri]
        ELSE IF fid.kind = "Nc" /\ ~loss.inf
             THEN Epsilon(loss.eps
                     * Cardinality({i \in DOMAIN uris.querier_uris :
                                       uris.querier_uris[i] = fid.uri}))
             ELSE loss]

Mut_filters_to_consume_OneLoss(epoch_id, loss, source_losses, uris) ==
    [fid \in {Nc(epoch_id, u) : u \in Range(uris.querier_uris)}
              \cup {QTrigger(epoch_id, uris.trigger_uri), C(epoch_id)}
              \cup {QSource(epoch_id, src) : src \in DOMAIN source_losses} |->
        loss]

Mut_filters_to_consume_NoC(epoch_id, loss, source_losses, uris) ==
    [fid \in {Nc(epoch_id, u) : u \in Range(uris.querier_uris)}
              \cup {QTrigger(epoch_id, uris.trigger_uri)}
              \cup {QSource(epoch_id, src) : src \in DOMAIN source_losses} |->
        IF fid.kind = "QSource" THEN source_losses[fid.uri] ELSE loss]

\* The map from filter id to the loss to take from it.
filters_to_consume(epoch_id, loss, source_losses, uris) ==
    LET device_epoch_filter_ids ==
            {Nc(epoch_id, u) : u \in Range(uris.querier_uris)}
            \cup {QTrigger(epoch_id, uris.trigger_uri), C(epoch_id)}
        source_filter_ids ==
            {QSource(epoch_id, src) : src \in DOMAIN source_losses}
    IN [fid \in device_epoch_filter_ids \cup source_filter_ids |->
           IF fid.kind = "QSource" THEN source_losses[fid.uri] ELSE loss]

\* The commit loop of deduct_budget over the filter ids still to visit: the
\* ids are distinct, so the order of the visit does not change the outcome.
RECURSIVE consume_all(_, _, _, _, _)
consume_all(fs, caps, to_consume, todo, oob) ==
    IF todo = {} THEN [fs |-> fs, oob_filters |-> oob]
    ELSE LET fid == CHOOSE f \in todo : TRUE
         IN TheOnly({
                consume_all(r.fs, caps, to_consume, todo \ {fid},
                    IF r.status = "OutOfBudget" THEN oob \cup {fid} ELSE oob) :
                r \in {Storage_try_consume(fs, caps, fid, to_consume[fid])}})

Mut_deduct_budget_ListsAll(fs, caps, to_consume, dry_run) ==
    IF dry_run
    THEN TheOnly({
             [status |-> IF oob = {} THEN "Continue" ELSE "OutOfBudget",
              oob_filters |-> IF oob = {} THEN {} ELSE DOMAIN to_consume,
              fs |-> fs] :
             oob \in {{fid \in DOMAIN to_consume :
                         Storage_can_consume(fs, caps, fid, to_consume[fid])
                             = "OutOfBudget"}}})
    ELSE TheOnly({
             [status |-> IF r.oob_filters = {} THEN "Continue"
                         ELSE "OutOfBudget",
              oob_filters |-> r.oob_filters, fs |-> r.fs] :
             r \in {consume_all(fs, caps, to_consume, DOMAIN to_consume, {})}})

Mut_deduct_budget_DryRunPersists(fs, caps, to_consume, dry_run) ==
    IF dry_run
    THEN TheOnly({
             [status |-> IF oob = {} THEN "Continue" ELSE "OutOfBudget",
              oob_filters |-> oob,
              fs |-> [fid \in (DOMAIN fs) \cup (DOMAIN to_consume) |->
                         get_filter_or_new(fs, caps, fid)]] :
             oob \in {{fid \in DOMAIN to_consume :
                         Storage_can_consume(fs, caps, fid, to_consume[fid])
                             = "OutOfBudget"}}})
    ELSE TheOnly({
             [status |-> IF r.oob_filters = {} THEN "Continue"
                         ELSE "OutOfBudget",
              oob_filters |-> r.oob_filters, fs |-> r.fs] :
             r \in {consume_all(fs, caps, to_consume, DOMAIN to_consume, {})}})

Mut_deduct_budget_DryRunConsumes(fs, caps, to_consume, dry_run) ==
    TheOnly({
        [status |-> IF r.oob_filters = {} THEN "Continue" ELSE "OutOfBudget",
         oob_filters |-> r.oob_filters, fs |-> r.fs] :
        r \in {consume_all(fs, caps, to_consume, DOMAIN to_consume, {})}})

Mut_deduct_budget_DryRunPasses(fs, caps, to_consume, dry_run) ==
    IF dry_run
    THEN [status |-> "Continue", oob_filters |-> {}, fs |-> fs]
    ELSE TheOnly({
             [status |-> IF r.oob_filters = {} THEN "Continue"
                         ELSE "OutOfBudget",
              oob_filters |-> r.oob_filters, fs |-> r.fs] :
             r \in {consume_all(fs, caps, to_consume, DOMAIN to_consume, {})}})

\* Returns the PdsFilterStatus (status and out-of-budget filter ids) and the
\* storage after the call.
deduct_budget(fs, caps, to_consume, dry_run) ==
    IF dry_run
    THEN TheOnly({
             [status |-> IF oob = {} THEN "Continue" ELSE "OutOfBudget",
              oob_filters |-> oob, fs |-> fs] :
             oob \in {{fid \in DOMAIN to_consume :
                         Storage_can_consume(fs, caps, fid, to_consume[fid])
                             = "OutOfBudget"}}})
    ELSE TheOnly({
             [status |-> IF r.oob_filters = {} THEN "Continue"
                         ELSE "OutOfBudget",
              oob_filters |-> r.oob_filters, fs |-> r.fs] :
             r \in {consume_all(fs, caps, to_consume, DOMAIN to_consume, {})}})

is_optimization_query(site_to_report_mapping) ==
    Cardinality(DOMAIN site_to_report_mapping) >= 3


PdsReport(filtered_report, unfiltered_report, oob_filters) ==
    [filtered_report |-> filtered_report,
     unfiltered_report |-> unfiltered_report,
     oob_filters |-> oob_filters]

calculate_optimization_query(request, unfiltered_result, filtered_result, oob_filters) ==
    LET intermediary_uris == report_uris(request).intermediary_uris
    IN IF Cardinality(DOMAIN filtered_result.bucket_uri_map) > 0
       THEN [u \in Range(intermediary_uris)
                     \cap DOMAIN unfiltered_result.uri_report_map |->
                PdsReport(unfiltered_result.uri_report_map[u],
                          unfiltered_result.uri_report_map[u],
                          oob_filters)]
       ELSE EmptyMap

\* One turn of the epoch loop of compute_report: the losses of the epoch,
\* the dry run, then the commit or the drop of the epoch.  The record keeps
\* what the turn computed and the storage before and after it.
compute_report_epoch(fs, caps, request, rel, unfiltered_report, num_epochs, epoch_id) ==
    TheOnly({
    TheOnly({
    TheOnly({
    TheOnly({
        [epoch_id |-> epoch_id,
         events |-> for_epoch(rel, epoch_id),
         loss |-> individual_privacy_loss,
         source_losses |-> source_losses,
         to_consume |-> to_consume,
         status |-> check_status.status,
         oob_filters |-> check_status.oob_filters,
         before |-> fs,
         after |-> consume_status.fs,
         rel |-> IF check_status.status = "Continue" THEN rel
                 ELSE drop_epoch(rel, epoch_id),
         panicked |-> consume_status.status # check_status.status] :
        \* the commit, made only when the dry run passed
        consume_status \in {IF check_status.status = "Continue"
                            THEN deduct_budget(fs, caps, to_consume, FALSE)
                            ELSE check_status}}) :
        check_status \in {deduct_budget(fs, caps, to_consume, TRUE)}}) :
        to_consume \in {filters_to_consume(epoch_id, individual_privacy_loss,
                            source_losses, report_uris(request))}}) :
        individual_privacy_loss \in
            {compute_epoch_loss(request, for_epoch(rel, epoch_id),
                                unfiltered_report, num_epochs)},
        source_losses \in
            {compute_epoch_source_losses(request,
                 sources_for_epoch(rel, epoch_id), unfiltered_report,
                 num_epochs)}})

\* The epoch loop: the sequence of its turns, in the order of epoch_ids.
RECURSIVE compute_report_loop(_, _, _, _, _, _, _, _)
compute_report_loop(fs, caps, request, rel, unfiltered_report, epochs, i, steps) ==
    IF i > Len(epochs) THEN steps
    ELSE TheOnly({
             IF step.panicked THEN Append(steps, step)
             ELSE compute_report_loop(step.after, caps, request, step.rel,
                      unfiltered_report, epochs, i + 1, Append(steps, step)) :
             step \in {compute_report_epoch(fs, caps, request, rel,
                           unfiltered_report, Len(epochs), epochs[i])}})

RECURSIVE UnionOob(_, _)
UnionOob(steps, i) ==
    IF i > Len(steps) THEN {}
    ELSE steps[i].oob_filters \cup UnionOob(steps, i + 1)

\* The orders in which a loop over a HashMap can visit the keys `ids`: the
\* map hashes its keys with a per-map random state, so every order occurs.
RECURSIVE iteration_orders(_)
iteration_orders(ids) ==
    IF ids = {} THEN {<<>>}
    ELSE UNION {{<<fid>> \o rest : rest \in iteration_orders(ids \ {fid})} :
                fid \in ids}

\* The lists compute_report can return as oob_filters after the turns
\* `steps` from turn i on: each refused turn appends the ids deduct_budget
\* pushed, in the order its loop over filters_to_consume met them.
RECURSIVE oob_filters_lists(_, _)
oob_filters_lists(steps, i) ==
    IF i > Len(steps) THEN {<<>>}
    ELSE {head \o rest :
             head \in iteration_orders(steps[i].oob_filters),
             rest \in oob_filters_lists(steps, i + 1)}

Mut_core_compute_report_result_SurvivorsOnly(fs, request, rel, unfiltered_result, steps, ok, err) ==
    TheOnly({
    TheOnly({
        IF end.panicked
        THEN [outcome |-> err, fs |-> end.fs, steps |-> steps,
              rel |-> end.rel, reports |-> EmptyMap]
        ELSE [outcome |-> ok, fs |-> end.fs, steps |-> steps,
              rel |-> end.rel,
              reports |->
                  IF is_optimization_query(filtered_result.uri_report_map)
                  THEN calculate_optimization_query(request,
                           filtered_result, filtered_result, end.oob_filters)
                  ELSE MapInsert(EmptyMap,
                           report_uris(request).querier_uris[1],
                           PdsReport(
                               filtered_result.uri_report_map[
                                   report_uris(request).querier_uris[1]],
                               filtered_result.uri_report_map[
                                   report_uris(request).querier_uris[1]],
                               end.oob_filters))] :
        filtered_result \in {compute_histogram_report(request, end.rel)}}) :
        end \in {IF Len(steps) = 0
                 THEN [fs |-> fs, rel |-> rel, panicked |-> FALSE,
                       oob_filters |-> {}]
                 ELSE [fs |-> steps[Len(steps)].after,
                       rel |-> steps[Len(steps)].rel,
                       panicked |-> steps[Len(steps)].panicked,
                       oob_filters |-> UnionOob(steps, 1)]}})

\* What compute_report returns and leaves once the epoch loop has made the
\* turns `steps`: the storage and the relevant events after the last turn,
\* and the reports built from the events that survive.
core_compute_report_result(fs, request, rel, unfiltered_result, steps, ok, err) ==
    TheOnly({
    TheOnly({
        IF end.panicked
        THEN [outcome |-> err, fs |-> end.fs, steps |-> steps,
              rel |-> end.rel, reports |-> EmptyMap]
        ELSE [outcome |-> ok, fs |-> end.fs, steps |-> steps,
              rel |-> end.rel,
              reports |->
                  IF is_optimization_query(filtered_result.uri_report_map)
                  THEN calculate_optimization_query(request,
                           unfiltered_result, filtered_result, end.oob_filters)
                  ELSE MapInsert(EmptyMap,
                           report_uris(request).querier_uris[1],
                           PdsReport(
                               filtered_result.uri_report_map[
                                   report_uris(request).querier_uris[1]],
                               unfiltered_result.uri_report_map[
                                   report_uris(request).querier_uris[1]],
                               end.oob_filters))] :
        filtered_result \in {compute_histogram_report(request, end.rel)}}) :
        end \in {IF Len(steps) = 0
                 THEN [fs |-> fs, rel |-> rel, panicked |-> FALSE,
                       oob_filters |-> {}]
                 ELSE [fs |-> steps[Len(steps)].after,
                       rel |-> steps[Len(steps)].rel,
                       panicked |-> steps[Len(steps)].panicked,
                       oob_filters |-> UnionOob(steps, 1)]}})

Mut_core_compute_report_NoQuerierCheck(fs, caps, request, rel) ==
    TheOnly({
    TheOnly({
        core_compute_report_result(fs, request, rel, unfiltered_result, steps,
                                   "Ok", "panic") :
        steps \in {compute_report_loop(fs, caps, request, rel,
                       unfiltered_result.uri_report_map[
                           report_uris(request).querier_uris[1]],
                       epoch_ids(request), 1, <<>>)}}) :
        unfiltered_result \in {compute_histogram_report(request, rel)}})

\* PrivateDataServiceCore::compute_report on the relevant events `rel`.
core_compute_report(fs, caps, request, rel) ==
    IF Len(report_uris(request).querier_uris) > 1
    THEN [outcome |-> "panic", fs |-> fs, steps |-> <<>>, rel |-> rel,
          reports |-> EmptyMap]
    ELSE
    TheOnly({
    TheOnly({
        core_compute_report_result(fs, request, rel, unfiltered_result, steps,
                                   "Ok", "panic") :
        steps \in {compute_report_loop(fs, caps, request, rel,
                       unfiltered_result.uri_report_map[
                           report_uris(request).querier_uris[1]],
                       epoch_ids(request), 1, <<>>)}}) :
        unfiltered_result \in {compute_histogram_report(request, rel)}})

\* PrivateDataService::compute_report.
compute_report(fs, caps, es, request) ==
    core_compute_report(fs, caps, request,
        from_event_storage(es, epoch_ids(request), request.selector))

Mut_passive_epoch_CommitsAnyway(fs, caps, request, epoch_id) ==
    TheOnly({
    TheOnly({
    TheOnly({
        [epoch_id |-> epoch_id,
         to_consume |-> to_consume,
         status |-> check_status.status,
         oob_filters |-> check_status.oob_filters,
         before |-> fs,
         after |-> consume_status.fs,
         panicked |-> FALSE] :
        consume_status \in {deduct_budget(fs, caps, to_consume, FALSE)}}) :
        check_status \in {deduct_budget(fs, caps, to_consume, TRUE)}}) :
        to_consume \in {filters_to_consume(epoch_id, request.privacy_budget,
                            EmptyMap, request.uris)}})

\* One turn of the loop of account_for_passive_privacy_loss.
passive_epoch(fs, caps, request, epoch_id) ==
    TheOnly({
    TheOnly({
    TheOnly({
        [epoch_id |-> epoch_id,
         to_consume |-> to_consume,
         status |-> check_status.status,
         oob_filters |-> check_status.oob_filters,
         before |-> fs,
         after |-> consume_status.fs,
         panicked |-> consume_status.status # check_status.status] :
        \* the commit, made only when the dry run passed
        consume_status \in {IF check_status.status = "Continue"
                            THEN deduct_budget(fs, caps, to_consume, FALSE)
                            ELSE check_status}}) :
        check_status \in {deduct_budget(fs, caps, to_consume, TRUE)}}) :
        to_consume \in {filters_to_consume(epoch_id, request.privacy_budget,
                            EmptyMap, request.uris)}})

\* The loop returns at the first turn whose dry run is out of budget.
RECURSIVE passive_loop(_, _, _, _, _)
passive_loop(fs, caps, request, i, steps) ==
    IF i > Len(request.epoch_ids) THEN steps
    ELSE TheOnly({
             IF step.status # "Continue" \/ step.panicked
             THEN Append(steps, step)
             ELSE passive_loop(step.after, caps, request, i + 1,
                               Append(steps, step)) :
             step \in {passive_epoch(fs, caps, request, request.epoch_ids[i])}})

Mut_account_for_passive_privacy_loss_Rollback(fs, caps, request) ==
    TheOnly({
        IF Len(steps) = 0
        THEN [outcome |-> "Ok", status |-> "Continue", oob_filters |-> {},
              fs |-> fs, steps |-> steps]
        ELSE [outcome |-> "Ok", status |-> steps[Len(steps)].status,
              oob_filters |-> steps[Len(steps)].oob_filters,
              fs |-> IF steps[Len(steps)].status = "Continue"
                     THEN steps[Len(steps)].after ELSE fs,
              steps |-> steps] :
        steps \in {passive_loop(fs, caps, request, 1, <<>>)}})

account_for_passive_privacy_loss(fs, caps, request) ==
    TheOnly({
        IF Len(steps) = 0
        THEN [outcome |-> "Ok", status |-> "Continue", oob_filters |-> {},
              fs |-> fs, steps |-> steps]
        ELSE IF steps[Len(steps)].panicked
             THEN [outcome |-> "Err", status |-> "Continue",
                   oob_filters |-> {}, fs |-> steps[Len(steps)].after,
                   steps |-> steps]
             ELSE [outcome |-> "Ok", status |-> steps[Len(steps)].status,
                   oob_filters |-> steps[Len(steps)].oob_filters,
                   fs |-> steps[Len(steps)].after, steps |-> steps] :
        steps \in {passive_loop(fs, caps, request, 1, <<>>)}})


(***************************************************************************)
(* The inputs of the model.                                                *)
(***************************************************************************)
ReportRequestUris(trigger, sources, intermediaries, queriers) ==
    [trigger_uri |-> trigger, source_uris |-> sources,
     intermediary_uris |-> intermediaries, querier_uris |-> queriers]

\* A constructor's Err(message); its Ok(request) is the request itself.
Err(message) == [error |-> message]

IsErr(result) == "error" \in DOMAIN result

\* PpaHistogramRequest::new_direct with the selector of the request.
PpaHistogramRequest_new_direct(start, end, value, noise, size, uris, mapping) ==
    IF value <= 0 THEN Err("attributable_value must be > 0")
    ELSE IF noise <= 0 THEN Err("laplace_noise_scale must be > 0")
    ELSE IF size = 0 THEN Err("histogram_size must be greater than 0")
    ELSE
    [start_epoch |-> start, end_epoch |-> end, attributable_value |-> value,
     laplace_noise_scale |-> noise, histogram_size |-> size,
     selector |-> [uris |-> uris, matching |-> {1},
                   bucket_intermediary_mapping |-> mapping]]

PpaHistogramConfig(start, end, value, max_value, epsilon, size) ==
    [start_epoch |-> start, end_epoch |-> end, attributable_value |-> value,
     max_attributable_value |-> max_value, requested_epsilon |-> epsilon,
     histogram_size |-> size]

\* PpaHistogramRequest::new: the noise scale is the query global sensitivity
\* 2 * max_attributable_value over the requested epsilon (the epsilons of the
\* model divide it exactly).
PpaHistogramRequest_new(config, relevant_event_selector) ==
    IF config.requested_epsilon <= 0 THEN Err("epsilon scale must be > 0")
    ELSE IF \/ config.attributable_value < 0
            \/ config.max_attributable_value < 0
         THEN Err("sensitivity values must be >= 0")
    ELSE IF config.histogram_size = 0
         THEN Err("histogram_size must be greater than 0")
    ELSE
    [start_epoch |-> config.start_epoch, end_epoch |-> config.end_epoch,
     attributable_value |-> config.attributable_value,
     laplace_noise_scale |->
         (config.max_attributable_value * 2) \div config.requested_epsilon,
     histogram_size |-> config.histogram_size,
     selector |-> relevant_event_selector]

PassivePrivacyLossRequest(ids, budget, uris) ==
    [epoch_ids |-> ids, privacy_budget |-> budget, uris |-> uris]

\* The capacities the service is built with: finite ones small enough for
\* every kind of filter to run out, and the all-infinite debugging set-up.
CapacityChoices ==
    {StaticCapacities_new(Epsilon(2), Epsilon(3), Epsilon(2), Epsilon(2)),
     StaticCapacities_new(Infinite, Infinite, Infinite, Infinite)}

\* The events a site may register: in every epoch two relevant ones, in
\* different buckets and from different sources; in the latest epoch one
\* whose bucket is outside the histogram; in the first epoch one that no
\* request of the model selects.
EventChoices ==
    {PpaEvent(e, 1, "s1", {"t1"}, {"q1"}, 1) : e \in Epochs}
    \cup {PpaEvent(e, 2, "s2", {"t1"}, {"q1"}, 1) : e \in Epochs}
    \cup {PpaEvent(MaxEpoch, 3, "s1", {"t1"}, {"q1"}, 1),
          PpaEvent(1, 1, "s1", {"t1"}, {"q2"}, 1)}

OneSource == ReportRequestUris("t1", <<"s1">>, <<>>, <<"q1">>)

TwoSources == ReportRequestUris("t1", <<"s1", "s2">>, <<>>, <<"q1">>)

WithIntermediaries(intermediaries) ==
    ReportRequestUris("t1", <<"s1", "s2">>, intermediaries, <<"q1">>)

SplitBuckets == [b \in {1, 2} |-> IF b = 1 THEN "r1" ELSE "r2"]

\* The URIs and bucket maps of the report requests made on every window:
\* without intermediaries, and with two intermediaries under a bucket map
\* and under the empty bucket map.
UriChoices ==
    {<<OneSource, EmptyMap>>,
     <<TwoSources, EmptyMap>>,
     <<WithIntermediaries(<<"r1", "r2">>), SplitBuckets>>,
     <<WithIntermediaries(<<"r1", "r2">>), EmptyMap>>}

\* Those made on the windows that start at epoch 1 only: one intermediary,
\* another bucket map, and the querier among the intermediaries.
MoreUriChoices ==
    {<<WithIntermediaries(<<"r1">>), [b \in {1} |-> "r1"]>>,
     <<WithIntermediaries(<<"r1", "r2">>), [b \in {1, 2} |-> "r2"]>>,
     <<WithIntermediaries(<<"q1", "r1", "r2">>), SplitBuckets>>}

Windows == {<<s, e>> \in Epochs \X Epochs : s <= e}

\* The report requests: every window under UriChoices; the windows from
\* epoch 1 under MoreUriChoices; a request with noise scale 0 (built by
\* PpaHistogramRequest::new from a max_attributable_value of 0), one with
\* two queriers and one whose window is empty.
ReportRequests ==
    {PpaHistogramRequest_new_direct(w[1], w[2], 2, 2, 3, u[1], u[2]) :
        w \in Windows, u \in UriChoices}
    \cup {PpaHistogramRequest_new_direct(1, e, 2, 2, 3, u[1], u[2]) :
        e \in {1, MaxEpoch}, u \in MoreUriChoices}
    \cup {PpaHistogramRequest_new(PpaHistogramConfig(1, 1, 2, 0, 1, 3),
              [uris |-> OneSource, matching |-> {1},
               bucket_intermediary_mapping |-> EmptyMap]),
          PpaHistogramRequest_new_direct(1, 1, 2, 2, 3,
              ReportRequestUris("t1", <<"s1">>, <<>>, <<"q1", "q2">>),
              EmptyMap),
          PpaHistogramRequest_new_direct(MaxEpoch, 1, 2, 2, 3, OneSource,
              EmptyMap)}

\* The passive requests: lists of one or two epoch ids, a repeated id
\* included, and the empty list.
PassiveRequests ==
    {PassivePrivacyLossRequest(ids, Epsilon(2), OneSource) :
        ids \in {<<>>, <<1>>, <<1, MaxEpoch>>, <<MaxEpoch, 1>>, <<1, 1>>}}
    \cup {PassivePrivacyLossRequest(<<1, MaxEpoch>>, Epsilon(1),
              ReportRequestUris("t1", <<"s1">>, <<>>, <<"q1", "q2">>)),
          PassivePrivacyLossRequest(<<1>>, Infinite, OneSource)}

\* The filters and budgets of the direct calls on the filter storage.
DirectFilterIds == {Nc(1, "q1"), C(1)}

DirectBudgets == {Epsilon(1), Infinite}

(***************************************************************************)
(* The state of the service.                                               *)
(***************************************************************************)
VARIABLES
    capacities,   \* the StaticCapacities of the filter storage
    filters,      \* the stored filters: filter id -> remaining budget
    events,       \* the event storage: epoch -> events in insertion order
    last,         \* the last call on the service: its input and what it did
    ncalls        \* the number of calls made on the filters so far

vars == <<capacities, filters, events, last, ncalls>>

NumEvents == LET RECURSIVE Count(_)
                 Count(S) == IF S = {} THEN 0
                             ELSE LET e == CHOOSE x \in S : TRUE
                                  IN Len(events[e]) + Count(S \ {e})
             IN Count(Epochs)

Init ==
    /\ capacities \in CapacityChoices
    /\ filters = EmptyMap
    /\ events = [e \in Epochs |-> <<>>]
    /\ last = [op |-> "none"]
    /\ ncalls = 0

\* register_event
RegisterEvent ==
    /\ NumEvents < MaxEvents
    /\ \E event \in EventChoices :
          events' = add_event(events, event)
    /\ UNCHANGED <<capacities, filters, last, ncalls>>

\* compute_report: the whole call, under the &mut borrow of the service.
ComputeReport ==
    /\ ncalls < MaxCalls
    /\ \E request \in ReportRequests :
          \E r \in {compute_report(filters, capacities, events, request)} :
             /\ filters' = r.fs
             /\ last' = [op |-> "compute_report", request |-> request,
                         pre |-> filters,
                         relevant_events |-> from_event_storage(events,
                             epoch_ids(request), request.selector),
                         outcome |-> r.outcome, steps |-> r.steps,
                         rel |-> r.rel, reports |-> r.reports]
    /\ ncalls' = ncalls + 1
    /\ UNCHANGED <<capacities, events>>

\* account_for_passive_privacy_loss: the whole call.
AccountForPassivePrivacyLoss ==
    /\ ncalls < MaxCalls
    /\ \E request \in PassiveRequests :
          \E r \in {account_for_passive_privacy_loss(filters, capacities,
                                                     request)} :
             /\ filters' = r.fs
             /\ last' = [op |-> "passive", request |-> request,
                         pre |-> filters, outcome |-> r.outcome,
                         status |-> r.status, oob_filters |-> r.oob_filters,
                         steps |-> r.steps]
    /\ ncalls' = ncalls + 1
    /\ UNCHANGED <<capacities, events>>

\* FilterStorage::try_consume called directly.
TryConsume ==
    /\ ncalls < MaxCalls
    /\ \E fid \in DirectFilterIds, budget \in DirectBudgets :
          \E r \in {Storage_try_consume(filters, capacities, fid, budget)} :
             /\ filters' = r.fs
             /\ last' = [op |-> "try_consume", filter_id |-> fid,
                         budget |-> budget, pre |-> filters,
                         status |-> r.status]
    /\ ncalls' = ncalls + 1
    /\ UNCHANGED <<capacities, events>>

\* FilterStorage::can_consume called directly.
CanConsume ==
    /\ ncalls < MaxCalls
    /\ \E fid \in DirectFilterIds, budget \in DirectBudgets :
          last' = [op |-> "can_consume", filter_id |-> fid,
                   budget |-> budget, pre |-> filters,
                   status |-> Storage_can_consume(filters, capacities,
                                                  fid, budget)]
    /\ ncalls' = ncalls + 1
    /\ UNCHANGED <<capacities, filters, events>>

Next ==
    \/ RegisterEvent
    \/ ComputeReport
    \/ AccountForPassivePrivacyLoss
    \/ TryConsume
    \/ CanConsume

Spec == Init /\ [][Next]_vars


(***************************************************************************)
(* EpochPrivateDataService (pds/epoch_pds.rs), the service behind the      *)
(* Firefox glue: it reads the event storage itself, counts the epochs to   *)
(* account for from what the storage returned, and creates the filters of  *)
(* an epoch before it checks them.                                         *)
(***************************************************************************)
\* HashMapEventStorage::relevant_epoch_events: None (some = FALSE) for an
\* epoch the storage has no entry for.
relevant_epoch_events(es, epoch_id, selector) ==
    IF Len(es[epoch_id]) = 0 THEN [some |-> FALSE, events |-> <<>>]
    ELSE [some |-> TRUE,
          events |-> LET Rel(ev) == is_relevant_event(selector, ev)
                     IN SelectSeq(es[epoch_id], Rel)]

EpochPds_relevant_events_per_epoch(es, request) ==
    [e \in {x \in Range(epoch_ids(request)) :
               relevant_epoch_events(es, x, request.selector).some} |->
        relevant_epoch_events(es, e, request.selector).events]

\* HashMapFilterStorage::new_filter under initialize_filter_if_necessary.
initialize_filter_if_necessary(fs, caps, filter_id) ==
    IF filter_id \in DOMAIN fs THEN fs
    ELSE set_filter(fs, filter_id, Filter_new(capacity(caps, filter_id)))

RECURSIVE initialize_all(_, _, _)
initialize_all(fs, caps, todo) ==
    IF todo = {} THEN fs
    ELSE LET fid == CHOOSE f \in todo : TRUE
         IN initialize_all(initialize_filter_if_necessary(fs, caps, fid),
                           caps, todo \ {fid})

EpochPds_deduct_budget(fs, caps, epoch_id, loss, source_losses, uris, dry_run) ==
    TheOnly({
    TheOnly({
        deduct_budget(initialized, caps, to_consume, dry_run) :
        initialized \in {initialize_all(fs, caps, DOMAIN to_consume)}}) :
        to_consume \in {filters_to_consume(epoch_id, loss, source_losses,
                                           uris)}})

EpochPds_compute_report_epoch(fs, caps, request, rel, unfiltered_report, num_epochs, epoch_id) ==
    TheOnly({
    TheOnly({
    TheOnly({
        [epoch_id |-> epoch_id,
         events |-> for_epoch(rel, epoch_id),
         loss |-> individual_privacy_loss,
         source_losses |-> source_losses,
         to_consume |-> filters_to_consume(epoch_id, individual_privacy_loss,
                            source_losses, report_uris(request)),
         status |-> check_status.status,
         oob_filters |-> check_status.oob_filters,
         before |-> fs,
         after |-> consume_status.fs,
         rel |-> IF check_status.status = "Continue" THEN rel
                 ELSE drop_epoch(rel, epoch_id),
         panicked |-> consume_status.status # check_status.status] :
        \* the commit, made only when the dry run passed
        consume_status \in
            {IF check_status.status = "Continue"
             THEN EpochPds_deduct_budget(check_status.fs, caps, epoch_id,
                      individual_privacy_loss, source_losses,
                      report_uris(request), FALSE)
             ELSE check_status}}) :
        check_status \in
            {EpochPds_deduct_budget(fs, caps, epoch_id,
                 individual_privacy_loss, source_losses,
                 report_uris(request), TRUE)}}) :
        individual_privacy_loss \in
            {compute_epoch_loss(request, for_epoch(rel, epoch_id),
                                unfiltered_report, num_epochs)},
        source_losses \in
            {compute_epoch_source_losses(request,
                 sources_for_epoch(rel, epoch_id), unfiltered_report,
                 num_epochs)}})

RECURSIVE EpochPds_compute_report_loop(_, _, _, _, _, _, _, _, _)
EpochPds_compute_report_loop(fs, caps, request, rel, unfiltered_report, num_epochs, epochs, i, steps) ==
    IF i > Len(epochs) THEN steps
    ELSE TheOnly({
             IF step.panicked THEN Append(steps, step)
             ELSE EpochPds_compute_report_loop(step.after, caps, request,
                      step.rel, unfiltered_report, num_epochs, epochs, i + 1,
                      Append(steps, step)) :
             step \in {EpochPds_compute_report_epoch(fs, caps, request, rel,
                           unfiltered_report, num_epochs, epochs[i])}})

\* EpochPrivateDataService::compute_report.
EpochPds_compute_report(fs, caps, es, request) ==
    IF Len(report_uris(request).querier_uris) > 1
    THEN [outcome |-> "panic", fs |-> fs, steps |-> <<>>,
          rel |-> EmptyMap, reports |-> EmptyMap]
    ELSE
    TheOnly({
    TheOnly({
    TheOnly({
        core_compute_report_result(fs, request, relevant_events_per_epoch,
                                   unfiltered_result, steps, "Ok", "Err") :
        steps \in {EpochPds_compute_report_loop(fs, caps, request,
                       relevant_events_per_epoch,
                       unfiltered_result.uri_report_map[
                           report_uris(request).querier_uris[1]],
                       \* num_epochs
                       Cardinality(DOMAIN relevant_events_per_epoch),
                       epoch_ids(request), 1, <<>>)}}) :
        unfiltered_result \in
            {compute_histogram_report(request, relevant_events_per_epoch)}}) :
        relevant_events_per_epoch \in
            {EpochPds_relevant_events_per_epoch(es, request)}})

\* compute_report of the EpochPrivateDataService: the whole call, under the
\* lock the Firefox glue takes.
EpochPdsComputeReport ==
    /\ ncalls < MaxCalls
    /\ \E request \in ReportRequests :
          \E r \in {EpochPds_compute_report(filters, capacities, events,
                                            request)} :
             /\ filters' = r.fs
             /\ last' = [op |-> "compute_report", request |-> request,
                         pre |-> filters,
                         relevant_events |->
                             EpochPds_relevant_events_per_epoch(events, request),
                         outcome |-> r.outcome, steps |-> r.steps,
                         rel |-> r.rel, reports |-> r.reports]
    /\ ncalls' = ncalls + 1
    /\ UNCHANGED <<capacities, events>>

EpochPdsNext ==
    \/ RegisterEvent
    \/ EpochPdsComputeReport

EpochPdsSpec == Init /\ [][EpochPdsNext]_vars


(***************************************************************************)
(* The histogram engine on its own: compute_report of a histogram request  *)
(* on a list of (event, value) pairs that any attribution logic may        *)
(* return.  `last` holds the request and the pairs, then the call and what *)
(* it built.                                                               *)
(***************************************************************************)
ValuePairs ==
    {<<PpaEvent(1, b, "s1", {"t1"}, {"q1"}, 1), v>> :
        b \in {1, 2}, v \in 1..MaxValue}

ValueLists == UNION {[1..n -> ValuePairs] : n \in 0..MaxPairs}

\* Requests of cap 2 and 3: without intermediaries, with two intermediaries
\* that share the buckets, with an intermediary no bucket maps to, and with
\* the querier among the intermediaries.
HistogramRequests ==
    {PpaHistogramRequest_new_direct(1, 1, cap, 2, 3, u[1], u[2]) :
        cap \in {2, 3},
        u \in {<<OneSource, EmptyMap>>,
               <<WithIntermediaries(<<"r1", "r2">>), SplitBuckets>>,
               <<WithIntermediaries(<<"r1", "r2">>), [b \in {1} |-> "r1"]>>,
               <<WithIntermediaries(<<"q1", "r1">>), SplitBuckets>>}}

HistogramInit ==
    /\ capacities = StaticCapacities_new(Infinite, Infinite, Infinite, Infinite)
    /\ filters = EmptyMap
    /\ events = [e \in Epochs |-> <<>>]
    /\ last \in {[op |-> "values", request |-> request, values |-> values] :
                    request \in HistogramRequests, values \in ValueLists}
    /\ ncalls = 0

\* compute_report of the histogram request on the pairs: the accumulation
\* under the cap, then the entries of the querier and of the intermediaries.
HistogramComputeReport ==
    /\ last.op = "values"
    /\ \E report \in {accumulate(last.request, last.values, 1, 0, EmptyMap)} :
          last' = [op |-> "histogram", request |-> last.request,
                   values |-> last.values, report |-> report,
                   uri_report_map |->
                       insert_intermediary_reports(last.request, report,
                           report_uris(last.request).intermediary_uris, 1,
                           MapInsert(EmptyMap,
                               report_uris(last.request).querier_uris[1],
                               report))]
    /\ ncalls' = ncalls + 1
    /\ UNCHANGED <<capacities, filters, events>>

HistogramNext == HistogramComputeReport

HistogramSpec == HistogramInit /\ [][HistogramNext]_vars


(***************************************************************************)
(* Properties.  `last` holds the last call with the storage before it and, *)
(* for the epoch loops, one record per turn; no action but the calls       *)
(* changes `filters`, so `filters` is the storage the last call left.      *)
(***************************************************************************)
IsEpochLoop == last.op \in {"compute_report", "passive"}

LastUris ==
    IF last.op = "compute_report" THEN report_uris(last.request)
    ELSE last.request.uris

\* filter_set(e): Nc(e,q) for each querier q, QTrigger(e,trigger), C(e) and
\* QSource(e,s) for each source s of the request.
FilterSet(e, uris) ==
    {Nc(e, q) : q \in Range(uris.querier_uris)}
    \cup {QTrigger(e, uris.trigger_uri), C(e)}
    \cup {QSource(e, src) : src \in Range(uris.source_uris)}

SameBudget(fs1, fs2, fid) ==
    remaining_budget(fs1, capacities, fid) = remaining_budget(fs2, capacities, fid)

Lowered(fs1, fs2, fid) ==
    /\ remaining_budget(fs2, capacities, fid)
           # remaining_budget(fs1, capacities, fid)
    /\ BudgetLeq(remaining_budget(fs2, capacities, fid),
                 remaining_budget(fs1, capacities, fid))

OccursOnce(i) ==
    \A j \in DOMAIN last.steps :
        last.steps[j].epoch_id = last.steps[i].epoch_id => j = i

C2_DebitOnlyIfAllCanAbsorb ==
    /\ IsEpochLoop =>
          \A i \in DOMAIN last.steps :
              LET step == last.steps[i]
              IN (\E fid \in DOMAIN step.after :
                      Lowered(step.before, step.after, fid))
                 => \A fid \in DOMAIN step.to_consume :
                        Filter_can_consume(
                            remaining_budget(step.before, capacities, fid),
                            step.to_consume[fid])
    /\ last.op = "try_consume" =>
          (Lowered(last.pre, filters, last.filter_id)
           => Filter_can_consume(
                  remaining_budget(last.pre, capacities, last.filter_id),
                  last.budget))

\* A turn debits several filters of one epoch, after an earlier turn of the
\* same call was refused.
C2_Witness ==
    /\ IsEpochLoop
    /\ \E i, j \in DOMAIN last.steps :
          /\ last.steps[i].status = "OutOfBudget"
          /\ Cardinality({fid \in DOMAIN last.steps[j].after :
                 Lowered(last.steps[j].before, last.steps[j].after, fid)}) >= 3


SurvivingEvents ==
    UNION {Range(last.rel[e]) : e \in DOMAIN last.rel}

\* C3 as stated: in every PdsReport that compute_report returns, a bucket of
\* filtered_report holds a value only if an event of a surviving epoch falls
\* in it, and when every epoch that held relevant events was dropped every
\* filtered_report is the empty report.
C3_FilteredFromSurvivors ==
    (last.op = "compute_report" /\ last.outcome = "Ok") =>
        \A u \in DOMAIN last.reports :
            LET filtered == last.reports[u].filtered_report
            IN /\ \A b \in DOMAIN filtered :
                      filtered[b] > 0 =>
                          \E ev \in SurvivingEvents : ev.histogram_index = b
               /\ SurvivingEvents = {} => filtered = EmptyMap

EarlierFilterSets(k) ==
    UNION {FilterSet(last.request.epoch_ids[j], last.request.uris) :
              j \in 1..(k - 1)}

Debited(remaining, budget, times) ==
    IF remaining.inf THEN remaining
    ELSE Epsilon(remaining.eps - times * budget.eps)

ChargedSet(j) ==
    {Nc(last.request.epoch_ids[j], q) :
        q \in Range(last.request.uris.querier_uris)}
    \cup {QTrigger(last.request.epoch_ids[j], last.request.uris.trigger_uri),
          C(last.request.epoch_ids[j])}

\* C5 as stated: if the dry run of account_for_passive_privacy_loss first
\* fails at the k-th epoch of the list, every filter of the epochs before it
\* has been debited by exactly the budget, no filter of the k-th or a later
\* epoch has been debited, and the status names only filters of the k-th
\* epoch.
C5_AsStated ==
    (last.op = "passive" /\ last.status = "OutOfBudget") =>
        LET k == Len(last.steps)
            ids == last.request.epoch_ids
        IN /\ \A j \in 1..(k - 1) : \A fid \in ChargedSet(j) :
                  remaining_budget(filters, capacities, fid)
                      = Debited(remaining_budget(last.pre, capacities, fid),
                                last.request.privacy_budget, 1)
           /\ \A j \in k..Len(ids) : \A fid \in ChargedSet(j) :
                  SameBudget(last.pre, filters, fid)
           /\ last.oob_filters \subseteq ChargedSet(k)

\* C5, amended: the entries of the list are taken in order, each turn from
\* the storage the turn before left; if the dry run first fails at the k-th
\* entry, every filter has been debited by the budget once for each of the
\* first k-1 entries whose epoch it belongs to (so by exactly the budget
\* when no epoch id is repeated), the k-th turn and the entries after it
\* have debited nothing, and the status names only filters of the k-th
\* entry's epoch.
C5_CommitsInOrderNoRollback ==
    (last.op = "passive" /\ last.status = "OutOfBudget") =>
        LET k == Len(last.steps)
            ids == last.request.epoch_ids
            Times(fid) == Cardinality({j \in 1..(k - 1) : fid \in ChargedSet(j)})
        IN /\ k <= Len(ids)
           /\ \A j \in 1..k :
                 /\ last.steps[j].epoch_id = ids[j]
                 /\ last.steps[j].before =
                        (IF j = 1 THEN last.pre ELSE last.steps[j - 1].after)
                 /\ j < k => last.steps[j].status = "Continue"
           /\ \A fid \in (DOMAIN filters) \cup (DOMAIN last.pre)
                             \cup ChargedSet(k) :
                 remaining_budget(filters, capacities, fid)
                     = Debited(remaining_budget(last.pre, capacities, fid),
                               last.request.privacy_budget, Times(fid))
           /\ filters = last.steps[k].before
           /\ last.oob_filters \subseteq ChargedSet(k)
           /\ last.oob_filters # {}

\* A passive request fails at its second entry after its first entry was
\* committed.
C5_Witness ==
    /\ last.op = "passive"
    /\ last.status = "OutOfBudget"
    /\ Len(last.steps) = 2
    /\ \E fid \in ChargedSet(1) : Lowered(last.pre, filters, fid)

\* C6: every stored filter has 0 <= remaining <= capacity, a filter of
\* infinite capacity keeping an infinite remaining budget.
C6_RemainingWithinCapacity ==
    \A fid \in DOMAIN filters :
        /\ filters[fid].inf \/ filters[fid].eps >= 0
        /\ BudgetLeq(filters[fid], capacity(capacities, fid))
        /\ capacity(capacities, fid).inf => filters[fid].inf

\* A filter has been emptied and a later consumption on it was refused.
C6_Witness ==
    /\ last.op \in {"compute_report", "passive", "try_consume"}
    /\ \E fid \in DOMAIN filters :
          /\ filters[fid] = Epsilon(0)
          /\ ~capacity(capacities, fid).inf
          /\ capacity(capacities, fid).eps > 0
          /\ \/ last.op = "try_consume" /\ last.filter_id = fid
                    /\ last.status = "OutOfBudget"
             \/ last.op \in {"compute_report", "passive"}
                    /\ \E i \in DOMAIN last.steps :
                          fid \in last.steps[i].oob_filters

\* The filter ids a call of the model can name.
AllFilterIds ==
    {Nc(e, u) : e \in Epochs, u \in {"q1", "q2", "r1", "r2"}}
    \cup {C(e) : e \in Epochs}
    \cup {QTrigger(e, "t1") : e \in Epochs}
    \cup {QSource(e, u) : e \in Epochs, u \in {"s1", "s2"}}

\* C7: no call on the service raises remaining_budget(id), an id absent
\* from the storage counting for its default capacity.
C7_RemainingBudgetMonotone ==
    [][\A fid \in AllFilterIds :
          BudgetLeq(remaining_budget(filters', capacities', fid),
                    remaining_budget(filters, capacities, fid))]_vars

\* A filter has been debited by one call and named out of budget by the
\* dry run of the next.
C7_Witness ==
    /\ ncalls = MaxCalls
    /\ IsEpochLoop
    /\ \E i \in DOMAIN last.steps : \E fid \in last.steps[i].oob_filters :
          /\ fid \in DOMAIN last.pre
          /\ Lowered(EmptyMap, last.pre, fid)


\* The request without its intermediaries and its bucket map.
WithoutIntermediaries(request) ==
    [request EXCEPT !.selector.uris.intermediary_uris = <<>>,
                    !.selector.bucket_intermediary_mapping = EmptyMap]

\* C8 as stated: a report request with k intermediaries and a bucket map
\* debits the same filters by the same amounts as the request with the same
\* histogram and no intermediary does from the same storage, and it debits
\* no Nc filter keyed by an intermediary.
C8_BudgetUniqueness ==
    (last.op = "compute_report" /\ last.outcome = "Ok") =>
        LET uris == report_uris(last.request)
            alone == core_compute_report(last.pre, capacities,
                         WithoutIntermediaries(last.request),
                         last.relevant_events)
        IN /\ \A fid \in AllFilterIds : SameBudget(alone.fs, filters, fid)
           /\ \A e \in Epochs :
                 \A u \in Range(uris.intermediary_uris)
                              \ Range(uris.querier_uris) :
                     SameBudget(last.pre, filters, Nc(e, u))

\* C9 as stated: when the uri -> report map of the query result has at
\* least 3 entries, compute_report returns one PdsReport per intermediary URI
\* of the request, keyed by that URI; otherwise one PdsReport keyed by the
\* querier URI.
C9_ResultShape ==
    (last.op = "compute_report" /\ last.outcome = "Ok") =>
        LET uris == report_uris(last.request)
            result == compute_histogram_report(last.request, last.rel)
        IN IF Cardinality(DOMAIN result.uri_report_map) >= 3
           THEN DOMAIN last.reports = Range(uris.intermediary_uris)
           ELSE DOMAIN last.reports = {uris.querier_uris[1]}

\* C10 as stated: the device-epoch loss of an epoch is 0 when the epoch has
\* no relevant events; otherwise the L1 norm of the unfiltered report over
\* the noise scale when the window of the request is one epoch long, and
\* the global sensitivity over the noise scale when it is longer (infinite
\* under a zero noise scale).
C10_EpochLossBySpan ==
    (last.op = "compute_report" /\ Len(last.steps) > 0) =>
        LET request == last.request
            unfiltered ==
                compute_histogram_report(request, last.relevant_events)
                    .uri_report_map[report_uris(request).querier_uris[1]]
            span == request.end_epoch - request.start_epoch + 1
        IN \A i \in DOMAIN last.steps :
              last.steps[i].loss =
                  IF Len(last.steps[i].events) = 0 THEN Epsilon(0)
                  ELSE IF request.laplace_noise_scale = 0 THEN Infinite
                  ELSE IF span = 1
                       THEN Epsilon(SumValues(unfiltered)
                                    \div request.laplace_noise_scale)
                       ELSE Epsilon((2 * request.attributable_value)
                                    \div request.laplace_noise_scale)

\* The report the accounting of the last compute_report call was given: the
\* querier's entry of the result computed on all the relevant events.
LastUnfilteredReport ==
    compute_histogram_report(last.request, last.relevant_events)
        .uri_report_map[report_uris(last.request).querier_uris[1]]

LastSpan == last.request.end_epoch - last.request.start_epoch + 1

\* C11: the per-source losses of every turn of compute_report hold one entry
\* for each source URI of the request; under a non-zero noise scale the entry
\* is, over the noise scale, 0 for a source with no relevant event in the
\* epoch, the L1 norm of the unfiltered report when the request has one epoch
\* and one requested source, and the global sensitivity otherwise.
C11_SourceLosses ==
    (last.op = "compute_report") =>
        \A i \in DOMAIN last.steps :
            LET step == last.steps[i]
                sources == Range(report_uris(last.request).source_uris)
                noise == last.request.laplace_noise_scale
                Sens(src) ==
                    IF \A ev \in Range(step.events) : ev.source_uri # src
                    THEN 0
                    ELSE IF LastSpan = 1 /\ Cardinality(sources) = 1
                         THEN SumValues(LastUnfilteredReport)
                         ELSE 2 * last.request.attributable_value
            IN /\ DOMAIN step.source_losses = sources
               /\ noise # 0 =>
                      \A src \in sources :
                          step.source_losses[src] = Epsilon(Sens(src) \div noise)

\* A turn on an epoch that holds events of one requested source and none of
\* the other: the first is charged the global sensitivity, the second 0.
C11_Witness ==
    /\ last.op = "compute_report"
    /\ \E i \in DOMAIN last.steps :
          /\ DOMAIN last.steps[i].source_losses = {"s1", "s2"}
          /\ last.steps[i].source_losses["s1"] = Epsilon(2)
          /\ last.steps[i].source_losses["s2"] = Epsilon(0)

ZeroNoise ==
    last.op = "compute_report" /\ last.request.laplace_noise_scale = 0

\* C12 as stated: under a zero noise scale the device-epoch loss and every
\* per-source loss of every turn is infinite, and the epoch is dropped when
\* a filter of its set has a finite capacity.
C12_AsStated ==
    ZeroNoise =>
        \A i \in DOMAIN last.steps :
            LET step == last.steps[i]
            IN /\ step.loss = Infinite
               /\ \A src \in DOMAIN step.source_losses :
                      step.source_losses[src] = Infinite
               /\ (\E fid \in DOMAIN step.to_consume :
                       ~capacity(capacities, fid).inf)
                  => /\ step.status = "OutOfBudget"
                     /\ step.epoch_id \notin DOMAIN step.rel

\* C12, amended: under a zero noise scale the device-epoch loss of a turn is
\* infinite when the epoch holds relevant events and 0 when it holds none,
\* and every per-source loss is infinite; the filters named out of budget
\* are the filters of finite remaining budget charged an infinite loss, and
\* the epoch is dropped when there is one.
C12_ZeroNoiseLosses ==
    ZeroNoise =>
        \A i \in DOMAIN last.steps :
            LET step == last.steps[i]
                refused == {fid \in DOMAIN step.to_consume :
                               /\ step.to_consume[fid].inf
                               /\ ~remaining_budget(step.before, capacities,
                                                    fid).inf}
            IN /\ step.loss = IF Len(step.events) = 0 THEN Epsilon(0)
                              ELSE Infinite
               /\ \A src \in DOMAIN step.source_losses :
                      step.source_losses[src] = Infinite
               /\ step.oob_filters = refused
               /\ refused # {} =>
                      /\ step.status = "OutOfBudget"
                      /\ step.epoch_id \notin DOMAIN step.rel
               /\ refused = {} =>
                      /\ step.status = "Continue"
                      /\ \A fid \in DOMAIN step.to_consume :
                             SameBudget(step.before, step.after, fid)

\* A zero-noise request on an epoch that holds a relevant event is refused
\* by filters of finite capacity and the epoch is dropped.
C12_Witness ==
    /\ ZeroNoise
    /\ \E i \in DOMAIN last.steps :
          /\ Len(last.steps[i].events) > 0
          /\ last.steps[i].loss = Infinite
          /\ last.steps[i].status = "OutOfBudget"
          /\ Nc(1, "q1") \in last.steps[i].oob_filters

\* C13 as stated: for an epoch of the window that holds no relevant event,
\* compute_report computes a zero device-epoch loss and a zero loss for every
\* source, and every filter of the epoch has the same remaining budget after
\* the call as before it.
C13_EmptyEpochUntouched ==
    (last.op = "compute_report") =>
        \A i \in DOMAIN last.steps :
            LET step == last.steps[i]
            IN Len(step.events) = 0 =>
                  /\ step.loss = Epsilon(0)
                  /\ \A src \in DOMAIN step.source_losses :
                         step.source_losses[src] = Epsilon(0)
                  /\ \A fid \in FilterSet(step.epoch_id, LastUris) :
                         SameBudget(last.pre, filters, fid)

\* The (event, value) pairs of the last compute_report call, on all its
\* relevant events.
LastValues == event_values(last.request, last.relevant_events)

LastIds == epoch_ids(last.request)

\* The positions of the events of epoch e that have a valid bucket.
ValidPositions(e) ==
    {k \in DOMAIN for_epoch(last.relevant_events, e) :
        for_epoch(last.relevant_events, e)[k].histogram_index
            < last.request.histogram_size}

\* The single-pair list of the last-inserted valid event of epoch e.
LastValidOf(e) ==
    LET k == CHOOSE x \in ValidPositions(e) :
                 \A y \in ValidPositions(e) : y <= x
    IN <<<<for_epoch(last.relevant_events, e)[k],
           last.request.attributable_value>>>>

\* C14 as stated: the value list is the last-inserted valid event of the
\* first epoch, in epoch_ids order, that holds a relevant event, and is empty
\* when that epoch holds no valid event or no epoch holds an event.
C14_AsStated ==
    (last.op = "compute_report") =>
        LET nonempty == {i \in DOMAIN LastIds :
                Len(for_epoch(last.relevant_events, LastIds[i])) > 0}
        IN IF nonempty = {} THEN LastValues = <<>>
           ELSE LET first == CHOOSE i \in nonempty : \A j \in nonempty : i <= j
                IN IF ValidPositions(LastIds[first]) = {}
                   THEN LastValues = <<>>
                   ELSE LastValues = LastValidOf(LastIds[first])

\* C14, amended: the value list holds at most one pair; it is the
\* last-inserted event with histogram_index < histogram_size of the first
\* epoch, in epoch_ids order, that holds such an event (an epoch whose events
\* are all out of range is passed over); it is empty, and so is the report,
\* when no epoch of the window holds one.
C14_LastTouch ==
    (last.op = "compute_report") =>
        LET valid == {i \in DOMAIN LastIds : ValidPositions(LastIds[i]) # {}}
        IN /\ Len(LastValues) <= 1
           /\ \A k \in DOMAIN LastValues :
                  LastValues[k][1].histogram_index < last.request.histogram_size
           /\ IF valid = {}
              THEN /\ LastValues = <<>>
                   /\ last.outcome = "Ok" =>
                          \A u \in DOMAIN last.reports :
                              last.reports[u].unfiltered_report = EmptyMap
              ELSE LET first == CHOOSE i \in valid : \A j \in valid : i <= j
                   IN LastValues = LastValidOf(LastIds[first])

\* The most recent epoch of the window holds only an event whose bucket is
\* out of range and an earlier epoch holds a valid one, which is attributed.
C14_Witness ==
    /\ last.op = "compute_report"
    /\ Len(LastIds) = 2
    /\ Len(for_epoch(last.relevant_events, LastIds[1])) > 0
    /\ ValidPositions(LastIds[1]) = {}
    /\ Len(LastValues) = 1
    /\ LastValues[1][1].epoch_number = LastIds[2]

\* The total of the first k values of a list of (event, value) pairs.
RECURSIVE PrefixTotal(_, _)
PrefixTotal(values, k) ==
    IF k = 0 THEN 0 ELSE values[k][2] + PrefixTotal(values, k - 1)

\* The length of the longest prefix of the pairs of the last histogram call
\* whose running totals all stay within the cap.
LastKept ==
    CHOOSE k \in 0..Len(last.values) :
        /\ \A j \in 1..k :
               PrefixTotal(last.values, j) <= last.request.attributable_value
        /\ k < Len(last.values) =>
               PrefixTotal(last.values, k + 1)
                   > last.request.attributable_value

\* The value the first LastKept pairs put in bucket b.
RECURSIVE KeptInBucket(_, _)
KeptInBucket(b, k) ==
    IF k = 0 THEN 0
    ELSE (IF last.values[k][1].histogram_index = b THEN last.values[k][2]
          ELSE 0) + KeptInBucket(b, k - 1)

\* C15: the report of the histogram engine is the histogram of the longest
\* prefix of the pairs whose running total stays within attributable_value
\* (a total equal to the cap is kept, the first pair that would exceed it
\* and every pair after it are in no bucket), and the bin values of every
\* report, of the engine and of compute_report, sum to at most the cap.
C15_L1Cap ==
    /\ last.op = "histogram" =>
          /\ DOMAIN last.report =
                 {last.values[i][1].histogram_index : i \in 1..LastKept}
          /\ \A b \in DOMAIN last.report :
                 last.report[b] = KeptInBucket(b, LastKept)
          /\ \A u \in DOMAIN last.uri_report_map :
                 SumValues(last.uri_report_map[u])
                     <= last.request.attributable_value
    /\ (last.op = "compute_report" /\ last.outcome = "Ok") =>
          \A u \in DOMAIN last.reports :
              /\ SumValues(last.reports[u].filtered_report)
                     <= last.request.attributable_value
              /\ SumValues(last.reports[u].unfiltered_report)
                     <= last.request.attributable_value

\* The engine halts on a pair that would exceed the cap and leaves out a
\* pair behind it that would have fitted.
C15_Witness ==
    /\ last.op = "histogram"
    /\ LastKept >= 1
    /\ LastKept + 1 < Len(last.values)
    /\ PrefixTotal(last.values, LastKept) + last.values[LastKept + 2][2]
           <= last.request.attributable_value
    /\ SumValues(last.report) = PrefixTotal(last.values, LastKept)

\* The engine accepts a running total equal to the cap.
C15_WitnessEqual ==
    /\ last.op = "histogram"
    /\ LastKept = 2
    /\ SumValues(last.report) = last.request.attributable_value

\* The report restricted to the buckets the bucket map gives to the URI u.
RestrictedTo(request, report, u) ==
    [b \in {x \in DOMAIN report :
               /\ x \in DOMAIN request.selector.bucket_intermediary_mapping
               /\ request.selector.bucket_intermediary_mapping[x] = u} |->
        report[b]]

\* C16 as stated: in the uri -> report map of the histogram engine the entry
\* of each intermediary URI is the querier's report restricted to the
\* buckets mapped to that intermediary, with the same values, and the entry
\* of the querier URI is the full report.
C16_IntermediaryEntries ==
    (last.op = "histogram") =>
        LET uris == report_uris(last.request)
        IN /\ DOMAIN last.uri_report_map =
                  {uris.querier_uris[1]} \cup Range(uris.intermediary_uris)
           /\ \A u \in Range(uris.intermediary_uris) :
                  last.uri_report_map[u]
                      = RestrictedTo(last.request, last.report, u)
           /\ last.uri_report_map[uris.querier_uris[1]] = last.report

\* The budgets the filter properties apply to every filter of the state.
Budgets == {Infinite} \cup {Epsilon(n) : n \in 0..3}

\* The filter behind the id fid: the stored one, or a fresh one.
FilterOf(fid) == get_filter_or_new(filters, capacities, fid)

\* C17: on a filter of finite remaining budget r, try_consume of a finite
\* budget l with 0 <= l <= r returns Continue and leaves r - l; l = r is
\* accepted and leaves 0.
C17_ConsumeSubtracts ==
    /\ \A fid \in AllFilterIds : \A b \in Budgets :
          (~FilterOf(fid).inf /\ ~b.inf /\ b.eps <= FilterOf(fid).eps) =>
              /\ Filter_try_consume(FilterOf(fid), b).status = "Continue"
              /\ Filter_remaining_budget(
                     Filter_try_consume(FilterOf(fid), b).filter)
                     = Epsilon(FilterOf(fid).eps - b.eps)
    /\ last.op = "try_consume" =>
          LET r == remaining_budget(last.pre, capacities, last.filter_id)
          IN (~r.inf /\ ~last.budget.inf /\ last.budget.eps <= r.eps) =>
                 /\ last.status = "Continue"
                 /\ remaining_budget(filters, capacities, last.filter_id)
                        = Epsilon(r.eps - last.budget.eps)

\* A direct try_consume takes exactly what the filter had left.
C17_Witness ==
    /\ last.op = "try_consume"
    /\ last.status = "Continue"
    /\ ~last.budget.inf
    /\ last.budget.eps > 0
    /\ remaining_budget(last.pre, capacities, last.filter_id) = last.budget
    /\ filters[last.filter_id] = Epsilon(0)

\* C18: on every filter and every budget, finite or infinite, can_consume
\* says Continue exactly when try_consume on the same filter does, that is
\* when the capacity is infinite or consumed + budget <= capacity; the
\* storage's can_consume and try_consume agree in the same way.
C18_CanIffTry ==
    /\ \A fid \in AllFilterIds : \A b \in Budgets :
          LET cap == capacity(capacities, fid)
              fits == cap.inf \/ (~b.inf /\ (cap.eps - FilterOf(fid).eps)
                                              + b.eps <= cap.eps)
          IN /\ Filter_can_consume(FilterOf(fid), b)
                    <=> Filter_try_consume(FilterOf(fid), b).status = "Continue"
             /\ Filter_can_consume(FilterOf(fid), b) <=> fits
             /\ Storage_can_consume(filters, capacities, fid, b)
                    = Storage_try_consume(filters, capacities, fid, b).status
    /\ last.op \in {"try_consume", "can_consume"} =>
          (last.status = "Continue"
              <=> Filter_can_consume(
                      remaining_budget(last.pre, capacities, last.filter_id),
                      last.budget))

\* can_consume refuses a finite budget on a filter that earlier calls have
\* emptied.
C18_Witness ==
    /\ last.op = "can_consume"
    /\ last.status = "OutOfBudget"
    /\ ~last.budget.inf
    /\ last.filter_id \in DOMAIN filters
    /\ ~filters[last.filter_id].inf
    /\ filters[last.filter_id].eps < last.budget.eps

\* C19: a try_consume that returns OutOfBudget leaves the filter as it was,
\* at the filter level and through the storage: the remaining budget of the
\* filter, and of every other filter, is the same before and after.
C19_RefusalMutatesNothing ==
    /\ \A fid \in AllFilterIds : \A b \in Budgets :
          /\ Filter_try_consume(FilterOf(fid), b).status = "OutOfBudget" =>
                 Filter_try_consume(FilterOf(fid), b).filter = FilterOf(fid)
          /\ \A r \in {Storage_try_consume(filters, capacities, fid, b)} :
                 r.status = "OutOfBudget" =>
                     \A other \in AllFilterIds :
                         SameBudget(filters, r.fs, other)
    /\ (last.op = "try_consume" /\ last.status = "OutOfBudget") =>
          \A other \in AllFilterIds : SameBudget(last.pre, filters, other)

\* A direct try_consume is refused on a filter that still holds budget and
\* that the storage did not hold before the call.
C19_Witness ==
    /\ last.op = "try_consume"
    /\ last.status = "OutOfBudget"
    /\ last.filter_id \notin DOMAIN last.pre
    /\ last.filter_id \in DOMAIN filters
    /\ filters[last.filter_id].eps > 0

\* C20: a filter of infinite capacity answers Continue to every try_consume
\* and stays infinite; a filter of finite capacity answers OutOfBudget to
\* every infinite try_consume and is left unchanged.
C20_InfiniteBudgets ==
    /\ \A fid \in AllFilterIds : \A b \in Budgets :
          /\ capacity(capacities, fid).inf =>
                 /\ Filter_try_consume(FilterOf(fid), b).status = "Continue"
                 /\ Filter_try_consume(FilterOf(fid), b).filter = Infinite
          /\ (~capacity(capacities, fid).inf /\ b.inf) =>
                 /\ Filter_try_consume(FilterOf(fid), b).status = "OutOfBudget"
                 /\ Filter_try_consume(FilterOf(fid), b).filter = FilterOf(fid)
    /\ last.op = "try_consume" =>
          /\ capacity(capacities, last.filter_id).inf =>
                 /\ last.status = "Continue"
                 /\ filters[last.filter_id] = Infinite
          /\ (~capacity(capacities, last.filter_id).inf /\ last.budget.inf) =>
                 /\ last.status = "OutOfBudget"
                 /\ SameBudget(last.pre, filters, last.filter_id)

\* An infinite try_consume is accepted by a filter of infinite capacity
\* after an earlier call on the storage.
C20_Witness ==
    /\ last.op = "try_consume"
    /\ last.budget.inf
    /\ capacity(capacities, last.filter_id).inf
    /\ last.status = "Continue"
    /\ ncalls = MaxCalls

\* The storage fs with every filter id of the model created up front: the
\* stored filters, and a fresh filter of its kind's capacity for every other
\* id.
CreatedUpFront(fs) ==
    [fid \in AllFilterIds |->
        IF fid \in DOMAIN fs THEN fs[fid]
        ELSE Filter_new(capacity(capacities, fid))]

C23_Deterministic ==
    (last.op = "compute_report" /\ last.outcome = "Ok") =>
        \A l1 \in oob_filters_lists(last.steps, 1) :
            \A l2 \in oob_filters_lists(last.steps, 1) : l1 = l2

\* C24: a compute_report whose request names more than one querier URI is
\* rejected before any accounting: the call panics, makes no turn of the
\* epoch loop, leaves every filter and the stored set of filters as they
\* were, drops no epoch and returns no report.
C24_MultiQuerierRejected ==
    (/\ last.op = "compute_report"
     /\ Len(report_uris(last.request).querier_uris) > 1) =>
        /\ last.outcome = "panic"
        /\ last.steps = <<>>
        /\ filters = last.pre
        /\ last.rel = last.relevant_events
        /\ last.reports = EmptyMap

\* A request with two queriers was made on a window that stores an event of
\* its first querier, over a storage that an earlier call had debited.
C24_Witness ==
    /\ last.op = "compute_report"
    /\ Len(report_uris(last.request).querier_uris) > 1
    /\ last.outcome = "panic"
    /\ \E e \in Range(epoch_ids(last.request)) :
          \E event \in Range(events_for_epoch(events, e)) :
              report_uris(last.request).querier_uris[1] \in event.querier_uris
    /\ last.pre # EmptyMap

\* ---------------------------------------------------------------------
\* The request constructors on their own: every configuration of the small
\* sets below is handed to PpaHistogramRequest::new or ::new_direct.

MaxConfigValue == 2

ConfigValues == (-1)..MaxConfigValue

ConfigEpsilons == {-1, 0, 1, 2}

ConfigSizes == {0, 1, 3}

PpaHistogramConfigs ==
    {PpaHistogramConfig(1, 1, value, max_value, epsilon, size) :
        value \in ConfigValues, max_value \in ConfigValues,
        epsilon \in ConfigEpsilons, size \in ConfigSizes}

DirectPpaHistogramConfigs ==
    {[start_epoch |-> 1, end_epoch |-> 1, attributable_value |-> value,
      laplace_noise_scale |-> noise, histogram_size |-> size] :
        value \in ConfigValues, noise \in ConfigValues, size \in ConfigSizes}

ConstructorInit ==
    /\ capacities = StaticCapacities_new(Infinite, Infinite, Infinite, Infinite)
    /\ filters = EmptyMap
    /\ events = [e \in Epochs |-> <<>>]
    /\ last = [op |-> "none"]
    /\ ncalls = 0

New ==
    /\ \E config \in PpaHistogramConfigs :
          last' = [op |-> "new", config |-> config,
                   result |-> PpaHistogramRequest_new(config,
                       [uris |-> OneSource, matching |-> {1},
                        bucket_intermediary_mapping |-> EmptyMap])]
    /\ UNCHANGED <<capacities, filters, events, ncalls>>

NewDirect ==
    /\ \E config \in DirectPpaHistogramConfigs :
          last' = [op |-> "new_direct", config |-> config,
                   result |-> PpaHistogramRequest_new_direct(
                       config.start_epoch, config.end_epoch,
                       config.attributable_value, config.laplace_noise_scale,
                       config.histogram_size, OneSource, EmptyMap)]
    /\ UNCHANGED <<capacities, filters, events, ncalls>>

ConstructorNext == New \/ NewDirect

ConstructorSpec == ConstructorInit /\ [][ConstructorNext]_vars

\* C25 (as stated): the constructors fail whenever attributable_value <= 0,
\* max_attributable_value <= 0, requested_epsilon <= 0 or histogram_size = 0,
\* so every request constructed has a strictly positive noise scale.
C25_RejectsZeroAndNegative ==
    /\ last.op = "new" =>
          /\ (\/ last.config.attributable_value <= 0
              \/ last.config.max_attributable_value <= 0
              \/ last.config.requested_epsilon <= 0
              \/ last.config.histogram_size = 0) => IsErr(last.result)
          /\ ~IsErr(last.result) => last.result.laplace_noise_scale > 0
    /\ last.op = "new_direct" =>
          /\ (\/ last.config.attributable_value <= 0
              \/ last.config.histogram_size = 0) => IsErr(last.result)
          /\ ~IsErr(last.result) => last.result.laplace_noise_scale > 0

\* ---------------------------------------------------------------------
\* compute_report over a filter storage whose operations can fail.  Every
\* storage call of deduct_budget is followed by `?`, so an Err leaves the
\* epoch loop and compute_report at once.

Mut_storage_failure_RollsBack(fs, caps, rel, steps, turn, phase, done) ==
    [outcome |-> "Err", fs |-> fs, steps |-> SubSeq(steps, 1, turn - 1),
     rel |-> IF turn = 1 THEN rel ELSE steps[turn - 1].rel,
     reports |-> EmptyMap]

\* What compute_report returns and leaves when a storage call fails in the
\* turn `turn` of the loop whose turns without failure are `steps`: the turns
\* before it are made as usual, the dry run of the turn writes nothing, and
\* a failure in the commit leaves debited the ids `done` that its loop had
\* passed to try_consume before the call that failed.
storage_failure(fs, caps, rel, steps, turn, phase, done) ==
    [outcome |-> "Err",
     fs |-> IF phase = "dry_run" THEN steps[turn].before
            ELSE consume_all(steps[turn].before, caps, steps[turn].to_consume,
                             done, {}).fs,
     steps |-> SubSeq(steps, 1, turn - 1),
     rel |-> IF turn = 1 THEN rel ELSE steps[turn - 1].rel,
     reports |-> EmptyMap]

\* The places where a storage call can fail: any turn, in its dry run or,
\* when the dry run passed, in its commit after any set of ids but all.
FailurePoints(steps) ==
    {[turn |-> turn, phase |-> "dry_run", done |-> {}] : turn \in DOMAIN steps}
    \cup UNION {{[turn |-> turn, phase |-> "commit", done |-> done] :
                    done \in SUBSET (DOMAIN steps[turn].to_consume)
                              \ {DOMAIN steps[turn].to_consume}} :
                turn \in {t \in DOMAIN steps : steps[t].status = "Continue"}}

\* The requests made on the failing storage: one and two epochs, one and
\* two sources.
FailureRequests ==
    {PpaHistogramRequest_new_direct(1, 1, 2, 2, 3, OneSource, EmptyMap),
     PpaHistogramRequest_new_direct(1, MaxEpoch, 2, 2, 3, OneSource, EmptyMap),
     PpaHistogramRequest_new_direct(1, MaxEpoch, 2, 2, 3, TwoSources,
                                    EmptyMap)}

\* compute_report in which a storage call fails.  The behaviour is not
\* followed beyond the failing call.
ComputeReportStorageFailure ==
    /\ ncalls < MaxCalls
    /\ \E request \in FailureRequests :
       \E relevant_events \in {from_event_storage(events, epoch_ids(request),
                                                  request.selector)} :
       \E normal \in {core_compute_report(filters, capacities, request,
                                          relevant_events)} :
       \E failure \in FailurePoints(normal.steps) :
       \E r \in {storage_failure(filters, capacities, relevant_events,
                                  normal.steps, failure.turn, failure.phase,
                                  failure.done)} :
          /\ filters' = r.fs
          /\ last' = [op |-> "compute_report", request |-> request,
                      pre |-> filters, relevant_events |-> relevant_events,
                      outcome |-> r.outcome, steps |-> r.steps,
                      rel |-> r.rel, reports |-> r.reports,
                      failure |-> failure]
    /\ ncalls' = MaxCalls
    /\ UNCHANGED <<capacities, events>>

FailingStorageNext ==
    \/ RegisterEvent
    \/ ComputeReport
    \/ ComputeReportStorageFailure

FailingStorageSpec == Init /\ [][FailingStorageNext]_vars

\* What the storage holds under the id: the filter, or nothing.
Stored(fs, fid) == IF fid \in DOMAIN fs THEN <<fs[fid]>> ELSE <<>>

\* C26: when a storage call fails while compute_report processes an epoch,
\* compute_report returns the error and no report; what the turns made
\* before the failure committed is still in storage, and the filters of the
\* epochs that come after the failing one in the loop are untouched.
C26_StorageFailure ==
    (last.op = "compute_report" /\ last.outcome = "Err") =>
        /\ last.reports = EmptyMap
        /\ Len(last.steps) = last.failure.turn - 1
        /\ \A i \in DOMAIN last.steps :
              \A fid \in AllFilterIds :
                  fid.epoch = last.steps[i].epoch_id =>
                      /\ Stored(filters, fid)
                             = Stored(last.steps[i].after, fid)
                      /\ (/\ fid \in DOMAIN last.steps[i].to_consume
                          /\ last.steps[i].status = "Continue"
                          /\ last.steps[i].to_consume[fid] # Epsilon(0)
                          /\ ~remaining_budget(last.pre, capacities, fid).inf)
                         => Lowered(last.pre, filters, fid)
        /\ \A j \in DOMAIN epoch_ids(last.request) :
              j > last.failure.turn =>
                  \A fid \in AllFilterIds :
                      fid.epoch = epoch_ids(last.request)[j] =>
                          Stored(filters, fid) = Stored(last.pre, fid)

\* The commit of the second turn failed after it had debited a filter, and
\* the first turn had committed its epoch.
C26_Witness ==
    /\ last.op = "compute_report"
    /\ last.outcome = "Err"
    /\ last.failure.turn = 2
    /\ last.failure.phase = "commit"
    /\ last.failure.done # {}
    /\ last.steps[1].status = "Continue"
    /\ \E fid \in DOMAIN last.steps[1].to_consume :
          Lowered(last.pre, filters, fid)

\* The first turn failed and an epoch of the window was still to come.
C26_WitnessLater ==
    /\ last.op = "compute_report"
    /\ last.outcome = "Err"
    /\ last.failure.turn = 1
    /\ Len(epoch_ids(last.request)) > 1
    /\ \E event \in Range(events[epoch_ids(last.request)[2]]) :
          is_relevant_event(last.request.selector, event)

\* ---------------------------------------------------------------------
\* The selection of the relevant events on its own: events that pass and
\* events that fail each condition of the selector are stored, then
\* RelevantEvents::from_event_storage reads the window of a request.

MaxStored == 3

RelevanceEventChoices ==
    UNION {{PpaEvent(e, 1, "s1", {"t1"}, {"q1"}, 1),
            PpaEvent(e, 2, "s1", {"t1", "t2"}, {"q1", "q2"}, 1),
            PpaEvent(e, 1, "s2", {"t1"}, {"q1"}, 1),
            PpaEvent(e, 1, "s1", {"t2"}, {"q1"}, 1),
            PpaEvent(e, 1, "s1", {"t1"}, {"q2"}, 1),
            PpaEvent(e, 1, "s1", {"t1"}, {"q1"}, 2)} : e \in Epochs}

RelevanceRequests ==
    {PpaHistogramRequest_new_direct(1, MaxEpoch, 2, 2, 3, OneSource, EmptyMap),
     PpaHistogramRequest_new_direct(1, 1, 2, 2, 3, TwoSources, EmptyMap),
     PpaHistogramRequest_new_direct(1, MaxEpoch, 2, 2, 3,
         ReportRequestUris("t1", <<"s1">>, <<>>, <<"q1", "q2">>), EmptyMap)}

RelevanceInit ==
    /\ capacities = StaticCapacities_new(Infinite, Infinite, Infinite, Infinite)
    /\ filters = EmptyMap
    /\ events = [e \in Epochs |-> <<>>]
    /\ last = [op |-> "none"]
    /\ ncalls = 0

\* register_event, while no selection has been made.
RegisterAnyEvent ==
    /\ last.op = "none"
    /\ NumEvents < MaxStored
    /\ \E event \in RelevanceEventChoices :
          events' = add_event(events, event)
    /\ UNCHANGED <<capacities, filters, last, ncalls>>

\* RelevantEvents::from_event_storage for the window of a request.
FromEventStorage ==
    /\ \E request \in RelevanceRequests :
          last' = [op |-> "from_event_storage", request |-> request,
                   relevant_events |-> from_event_storage(events,
                       epoch_ids(request), request.selector)]
    /\ UNCHANGED <<capacities, filters, events, ncalls>>

RelevanceNext == RegisterAnyEvent \/ FromEventStorage

RelevanceSpec == RelevanceInit /\ [][RelevanceNext]_vars

\* The four conditions of the claim, on the last request.
FourConditions(event) ==
    /\ event.source_uri \in Range(report_uris(last.request).source_uris)
    /\ Range(report_uris(last.request).querier_uris) \subseteq event.querier_uris
    /\ report_uris(last.request).trigger_uri \in event.trigger_uris
    /\ event.filter_data \in last.request.selector.matching

\* The number of events among the first p stored in epoch e that meet the
\* four conditions.
RankIn(e, p) ==
    Cardinality({q \in 1..p : FourConditions(events_for_epoch(events, e)[q])})

\* C27: RelevantEvents holds, for each epoch of the window, exactly the
\* stored events that meet the four conditions (source among the request's
\* sources, every querier of the request among the event's queriers, the
\* request's trigger among the event's triggers, filter_data accepted by the
\* predicate), in the order in which they are stored.
C27_RelevantEvents ==
    last.op = "from_event_storage" =>
        /\ DOMAIN last.relevant_events = Range(epoch_ids(last.request))
        /\ \A e \in DOMAIN last.relevant_events :
              /\ Len(last.relevant_events[e])
                     = RankIn(e, Len(events_for_epoch(events, e)))
              /\ \A p \in DOMAIN events_for_epoch(events, e) :
                     FourConditions(events_for_epoch(events, e)[p]) =>
                         last.relevant_events[e][RankIn(e, p)]
                             = events_for_epoch(events, e)[p]

\* An epoch stores three events; the first fails a condition and the two
\* others, which differ, are kept.
C27_Witness ==
    /\ last.op = "from_event_storage"
    /\ \E e \in DOMAIN last.relevant_events :
          /\ Len(events_for_epoch(events, e)) = 3
          /\ ~FourConditions(events_for_epoch(events, e)[1])
          /\ Len(last.relevant_events[e]) = 2
          /\ last.relevant_events[e][1] # last.relevant_events[e][2]

\* The filters a passive request names: for each of its epochs, Nc of each
\* querier, QTrigger of the trigger and C.
PassiveTargets ==
    UNION {{Nc(e, q) : q \in Range(last.request.uris.querier_uris)}
           \cup {QTrigger(e, last.request.uris.trigger_uri), C(e)} :
           e \in Range(last.request.epoch_ids)}

DistinctEpochs ==
    \A i, j \in DOMAIN last.request.epoch_ids :
        last.request.epoch_ids[i] = last.request.epoch_ids[j] => i = j

\* C28: a passive call with budget b over distinct epochs that returns
\* Continue lowers by exactly b the remaining budget of each Nc(e,q),
\* QTrigger(e,trigger) and C(e) of its epochs (an infinite remaining budget
\* stays infinite), and leaves every other filter, the QSource filters
\* among them, as it was.
C28_PassiveFrame ==
    (/\ last.op = "passive"
     /\ last.outcome = "Ok"
     /\ last.status = "Continue"
     /\ DistinctEpochs) =>
        \A fid \in AllFilterIds :
            \A before \in {remaining_budget(last.pre, capacities, fid)} :
            \A after \in {remaining_budget(filters, capacities, fid)} :
                IF fid \in PassiveTargets
                THEN IF before.inf THEN after = before
                     ELSE /\ ~last.request.privacy_budget.inf
                          /\ after = Epsilon(before.eps
                                       - last.request.privacy_budget.eps)
                ELSE /\ after = before
                     /\ Stored(filters, fid) = Stored(last.pre, fid)

\* A passive call for two queriers over two epochs went through on finite
\* capacities, after a report had debited a QSource filter of one of them.
C28_Witness ==
    /\ last.op = "passive"
    /\ last.outcome = "Ok"
    /\ last.status = "Continue"
    /\ DistinctEpochs
    /\ Len(last.request.epoch_ids) = 2
    /\ Len(last.request.uris.querier_uris) = 2
    /\ ~capacities.c.inf
    /\ Lowered(last.pre, filters, Nc(1, "q2"))
    /\ \E e \in Epochs :
          /\ QSource(e, "s1") \in DOMAIN last.pre
          /\ remaining_budget(last.pre, capacities, QSource(e, "s1"))
                 # capacity(capacities, QSource(e, "s1"))

\* The turn has committed its epoch: every filter it charges has its former
\* remaining budget less the computed loss (an infinite one stays
\* infinite), and the epoch keeps its relevant events.
EpochCommitted(step) ==
    /\ \A fid \in DOMAIN step.to_consume :
          \A before \in {remaining_budget(last.pre, capacities, fid)} :
              IF before.inf
              THEN remaining_budget(filters, capacities, fid) = before
              ELSE /\ ~step.to_consume[fid].inf
                   /\ remaining_budget(filters, capacities, fid)
                          = Epsilon(before.eps - step.to_consume[fid].eps)
    /\ step.epoch_id \in DOMAIN last.rel
    /\ last.rel[step.epoch_id] = last.relevant_events[step.epoch_id]

\* The turn has dropped its epoch: no filter of the epoch has changed, the
\* epoch is gone from the relevant events, and the turn has appended to
\* oob_filters one or more of the filter ids it charges, which every report
\* returned carries.
EpochDropped(step) ==
    /\ \A fid \in AllFilterIds :
          fid.epoch = step.epoch_id =>
              Stored(filters, fid) = Stored(last.pre, fid)
    /\ step.epoch_id \notin DOMAIN last.rel
    /\ step.oob_filters # {}
    /\ step.oob_filters \subseteq DOMAIN step.to_consume
    /\ \A list \in oob_filters_lists(last.steps, 1) :
          step.oob_filters \subseteq Range(list)
    /\ \A u \in DOMAIN last.reports :
          step.oob_filters \subseteq last.reports[u].oob_filters

\* C29: after a compute_report that returns a result, the loop has made one
\* turn for each epoch of epoch_ids, and each epoch is either committed
\* (its filters debited by their computed losses, its events kept) or
\* dropped (no filter debited, its events removed, one of its filter ids in
\* oob_filters), never both.
C29_CommittedOrDropped ==
    (last.op = "compute_report" /\ last.outcome = "Ok") =>
        /\ Len(last.steps) = Len(epoch_ids(last.request))
        /\ \A i \in DOMAIN last.steps :
              /\ last.steps[i].epoch_id = epoch_ids(last.request)[i]
              /\ IF last.steps[i].status = "Continue"
                 THEN /\ EpochCommitted(last.steps[i])
                      /\ \A u \in DOMAIN last.reports :
                            \A fid \in last.reports[u].oob_filters :
                                fid.epoch # last.steps[i].epoch_id
                 ELSE EpochDropped(last.steps[i])

\* One call has committed an epoch, lowering a filter, and dropped another
\* epoch that held relevant events.
C29_Witness ==
    /\ last.op = "compute_report"
    /\ last.outcome = "Ok"
    /\ \E i, j \in DOMAIN last.steps :
          /\ last.steps[i].status = "Continue"
          /\ \E fid \in DOMAIN last.steps[i].to_consume :
                Lowered(last.pre, filters, fid)
          /\ last.steps[j].status = "OutOfBudget"
          /\ last.relevant_events[last.steps[j].epoch_id] # <<>>

\* C30: in every turn of compute_report and of the passive call whose dry
\* run returns Continue, every try_consume of the commit returns Continue,
\* so the commit returns Continue and neither call ends in the "Phase 2
\* failed unexpectedly" branch.
C30_CommitNeverFails ==
    IsEpochLoop =>
        /\ \A i \in DOMAIN last.steps :
              last.steps[i].status = "Continue" =>
                  /\ \A fid \in DOMAIN last.steps[i].to_consume :
                        Storage_try_consume(last.steps[i].before, capacities,
                            fid, last.steps[i].to_consume[fid]).status
                            = "Continue"
                  /\ \A commit \in {deduct_budget(last.steps[i].before,
                                         capacities, last.steps[i].to_consume,
                                         FALSE)} :
                        /\ commit.status = "Continue"
                        /\ commit.fs = last.steps[i].after
                  /\ ~last.steps[i].panicked
        /\ last.op = "passive" => last.outcome = "Ok"
        /\ (/\ last.op = "compute_report"
            /\ Len(report_uris(last.request).querier_uris) = 1) =>
               last.outcome = "Ok"

\* A turn passed its dry run with a filter that had exactly the budget it
\* was charged, and the commit emptied it.
C30_Witness ==
    /\ IsEpochLoop
    /\ \E i \in DOMAIN last.steps :
          /\ last.steps[i].status = "Continue"
          /\ \E fid \in DOMAIN last.steps[i].to_consume :
                /\ ~last.steps[i].to_consume[fid].inf
                /\ last.steps[i].to_consume[fid].eps > 0
                /\ remaining_budget(last.steps[i].before, capacities, fid)
                       = last.steps[i].to_consume[fid]
                /\ remaining_budget(last.steps[i].after, capacities, fid)
                       = Epsilon(0)

\* The device-epoch loss and the per-source losses of a turn: those the turn
\* computed in compute_report, the request's budget and no source loss in
\* the passive call.
TurnLoss(step) ==
    IF last.op = "compute_report" THEN step.loss
    ELSE last.request.privacy_budget

TurnSourceLosses(step) ==
    IF last.op = "compute_report" THEN step.source_losses ELSE EmptyMap

\* C31: the filter set a turn builds for epoch e is exactly Nc(e,q) for each
\* querier q, QTrigger(e,trigger) and C(e), each with the device-epoch loss,
\* and QSource(e,s) with its own loss for each source s of the per-source
\* losses; it holds no other id and no id of another epoch.
C31_FilterSet ==
    IsEpochLoop =>
        \A i \in DOMAIN last.steps :
            \A step \in {last.steps[i]} :
                /\ DOMAIN step.to_consume
                       = {Nc(step.epoch_id, q) :
                             q \in Range(LastUris.querier_uris)}
                         \cup {QTrigger(step.epoch_id, LastUris.trigger_uri),
                               C(step.epoch_id)}
                         \cup {QSource(step.epoch_id, src) :
                                  src \in DOMAIN TurnSourceLosses(step)}
                /\ \A fid \in DOMAIN step.to_consume :
                      /\ fid.epoch = step.epoch_id
                      /\ fid.kind \in {"Nc", "QTrigger", "C"} =>
                             step.to_consume[fid] = TurnLoss(step)
                      /\ fid.kind = "QSource" =>
                             step.to_consume[fid]
                                 = TurnSourceLosses(step)[fid.uri]

\* A turn charges two sources, one of them a loss that is not the
\* device-epoch loss.
C31_Witness ==
    /\ last.op = "compute_report"
    /\ \E i \in DOMAIN last.steps :
          /\ DOMAIN last.steps[i].source_losses = {"s1", "s2"}
          /\ \E src \in {"s1", "s2"} :
                last.steps[i].source_losses[src] # last.steps[i].loss
          /\ last.steps[i].status = "Continue"

\* The dry run of the EpochPrivateDataService for a turn of the last call.
EpochPdsDryRun(step) ==
    EpochPds_deduct_budget(step.before, capacities, step.epoch_id, step.loss,
                           step.source_losses, report_uris(last.request), TRUE)

\* C32 (as stated): after a dry run, whatever its status, the set of stored
\* filter ids and every stored filter are what they were before it.
C32_AsStated ==
    last.op = "compute_report" =>
        \A i \in DOMAIN last.steps :
            /\ EpochPdsDryRun(last.steps[i]).fs = last.steps[i].before
            /\ last.steps[i].status = "OutOfBudget" =>
                   last.steps[i].after = last.steps[i].before

\* C32, amended: the dry run of PrivateDataServiceCore::deduct_budget leaves
\* the storage identical; the dry run of EpochPrivateDataService changes no
\* stored filter and no remaining budget, and the only ids it adds to the
\* storage are ids of the turn's filter set, each stored with the unspent
\* capacity of its kind.
C32_DryRunFrame ==
    last.op = "compute_report" =>
        \A i \in DOMAIN last.steps :
            \A step \in {last.steps[i]} :
            \A dry \in {EpochPdsDryRun(step)} :
                /\ deduct_budget(step.before, capacities, step.to_consume,
                                 TRUE).fs = step.before
                /\ dry.status = step.status
                /\ \A fid \in DOMAIN step.before :
                      Stored(dry.fs, fid) = Stored(step.before, fid)
                /\ \A fid \in AllFilterIds :
                      SameBudget(step.before, dry.fs, fid)
                /\ \A fid \in (DOMAIN dry.fs) \ (DOMAIN step.before) :
                      /\ fid \in DOMAIN step.to_consume
                      /\ dry.fs[fid] = Filter_new(capacity(capacities, fid))
                /\ step.status = "OutOfBudget" => step.after = dry.fs

\* A turn was refused on a storage that lacked filters of its set: the dry
\* run of the EpochPrivateDataService has stored them.
C32_Witness ==
    /\ last.op = "compute_report"
    /\ \E i \in DOMAIN last.steps :
          /\ last.steps[i].status = "OutOfBudget"
          /\ \E fid \in DOMAIN last.steps[i].to_consume :
                /\ fid \notin DOMAIN last.steps[i].before
                /\ fid \in DOMAIN last.steps[i].after
          /\ last.steps[i].before # EmptyMap

Listed ==
    IF last.op = "compute_report"
    THEN UNION {last.reports[u].oob_filters : u \in DOMAIN last.reports}
    ELSE last.oob_filters

LastEpochIds ==
    IF last.op = "compute_report" THEN epoch_ids(last.request)
    ELSE last.request.epoch_ids

\* The turn's dry run has refused fid: fid is of the turn's filter set and
\* can_consume on the storage the turn found returned OutOfBudget for its
\* loss.
RefusedBy(step, fid) ==
    /\ step.status = "OutOfBudget"
    /\ fid \in DOMAIN step.to_consume
    /\ Storage_can_consume(step.before, capacities, fid, step.to_consume[fid])
           = "OutOfBudget"

\* Every listed id is of the filter set of one of the request's epochs and
\* was refused by the dry run of a turn; a turn lists no filter that had
\* enough budget, and a turn that commits lists nothing.
ListedWereRefused ==
    /\ \A fid \in Listed :
          /\ \E e \in Range(LastEpochIds) : fid \in FilterSet(e, LastUris)
          /\ \E i \in DOMAIN last.steps : RefusedBy(last.steps[i], fid)
    /\ \A i \in DOMAIN last.steps :
          \A step \in {last.steps[i]} :
              /\ \A fid \in step.oob_filters : RefusedBy(step, fid)
              /\ step.status = "Continue" => step.oob_filters = {}

C34_WitnessRepeated ==
    /\ last.op = "passive"
    /\ Len(last.steps) = 2
    /\ last.steps[1].epoch_id = last.steps[2].epoch_id
    /\ last.steps[1].status = "Continue"
    /\ last.steps[2].status = "OutOfBudget"
    /\ Listed # {}

(***************************************************************************)
(* The Firefox service: MyPrivateAttributionService keeps the              *)
(* EpochPrivateDataService behind a Mutex, and every method of the XPCOM   *)
(* interface takes the lock before it touches the service.  The threads    *)
(* of the process call the methods; a call is a sequence of steps on the   *)
(* two storages.  In this specification `last` holds the state of the      *)
(* mutex, the position of each thread and the budgets getBudget reported.  *)
(***************************************************************************)
MaxServiceCalls == 5

ServiceThreads == {"main", "background"}

\* MyPrivateAttributionService::capacities
Service_capacities ==
    StaticCapacities_new(Epsilon(1), Epsilon(8), Epsilon(2), Epsilon(4))

\* The filter ids getBudget is asked about.
GetBudgetIds == {Nc(MaxEpoch, "q1"), C(MaxEpoch), QSource(MaxEpoch, "s1")}

\* The calls on the interface: onAttributionEvent registers an event of the
\* current epoch, addMockEvent one of any epoch; onAttributionConversion
\* asks for a report over the lookback window and computeReportFor over the
\* current epoch; getBudget names a filter; clearEvents has no argument.
ServiceCalls ==
    {[method |-> "onAttributionEvent",
      event |-> PpaEvent(MaxEpoch, 1, "s1", {"t1"}, {"q1"}, 1)]}
    \cup {[method |-> "addMockEvent",
           event |-> PpaEvent(e, 1, "s1", {"t1"}, {"q1"}, 1)] : e \in Epochs}
    \cup {[method |-> "onAttributionConversion",
           request |-> PpaHistogramRequest_new_direct(1, MaxEpoch, 2, 2, 3,
                           OneSource, EmptyMap)],
          [method |-> "computeReportFor",
           request |-> PpaHistogramRequest_new_direct(MaxEpoch, MaxEpoch, 2,
                           2, 3, OneSource, EmptyMap)]}
    \cup {[method |-> "getBudget", filter_id |-> fid] : fid \in GetBudgetIds}
    \cup {[method |-> "clearEvents"]}

\* A thread outside every method.
ThreadIdle ==
    [pc |-> "idle", call |-> [method |-> "none"], relevant |-> EmptyMap,
     rel |-> EmptyMap, i |-> 0, loss |-> Epsilon(0),
     source_losses |-> EmptyMap, seen |-> [filters |-> EmptyMap,
                                           events |-> EmptyMap]]

Mut_Mutex_lock_NoExclusion(mutex, thread) == mutex # "poisoned"

\* Mutex::lock().unwrap(): the thread gets the guard when no thread holds
\* the mutex; it waits while another holds it.
Mutex_lock(mutex, thread) == mutex = "unlocked"

ServiceInit ==
    /\ capacities = Service_capacities
    /\ filters = EmptyMap
    /\ events = [e \in Epochs |-> <<>>]
    /\ last = [op |-> "service", mutex |-> "unlocked",
               thread |-> [t \in ServiceThreads |-> ThreadIdle],
               reported |-> [fid \in GetBudgetIds |-> <<>>]]
    /\ ncalls = 0

\* Where the epoch loop of compute_report goes after turn i.
NextTurn(request, i) ==
    IF i + 1 > Len(epoch_ids(request)) THEN "unlock" ELSE "dry_run"

\* A thread enters a method and takes the lock.
ServiceCall ==
    /\ ncalls < MaxServiceCalls
    /\ \E t \in ServiceThreads :
          /\ last.thread[t].pc = "idle"
          /\ Mutex_lock(last.mutex, t)
          /\ \E call \in ServiceCalls :
                last' = [last EXCEPT !.mutex = t,
                             !.thread[t] = [ThreadIdle EXCEPT !.pc = "locked",
                                                              !.call = call]]
    /\ ncalls' = ncalls + 1
    /\ UNCHANGED <<capacities, filters, events>>

\* on_attribution_event and add_mock_event: register_event under the lock.
ServiceRegisterEvent ==
    /\ \E t \in ServiceThreads :
          /\ last.thread[t].pc = "locked"
          /\ last.thread[t].call.method
                 \in {"onAttributionEvent", "addMockEvent"}
          /\ events' = add_event(events, last.thread[t].call.event)
          /\ last' = [last EXCEPT !.thread[t].pc = "unlock"]
    /\ UNCHANGED <<capacities, filters, ncalls>>

\* compute_report under the lock: the relevant events are read from the
\* event storage.
ServiceCollectEvents ==
    /\ \E t \in ServiceThreads :
          /\ last.thread[t].pc = "locked"
          /\ last.thread[t].call.method
                 \in {"onAttributionConversion", "computeReportFor"}
          /\ \E rel \in {EpochPds_relevant_events_per_epoch(events,
                             last.thread[t].call.request)} :
                last' = [last EXCEPT
                    !.thread[t].pc = NextTurn(last.thread[t].call.request, 0),
                    !.thread[t].relevant = rel,
                    !.thread[t].rel = rel,
                    !.thread[t].i = 1]
    /\ UNCHANGED <<capacities, filters, events, ncalls>>

\* Phase 1 of a turn of the epoch loop: the losses of the epoch and the dry
\* run of deduct_budget, which creates the filters the storage lacks.
ServiceDryRun ==
    /\ \E t \in ServiceThreads :
          /\ last.thread[t].pc = "dry_run"
          /\ \E th \in {last.thread[t]} :
             \E request \in {th.call.request} :
             \E epoch_id \in {epoch_ids(request)[th.i]} :
             \E unfiltered_report \in
                 {compute_histogram_report(request, th.relevant)
                      .uri_report_map[report_uris(request).querier_uris[1]]} :
             \E loss \in {compute_epoch_loss(request,
                              for_epoch(th.rel, epoch_id), unfiltered_report,
                              Cardinality(DOMAIN th.relevant))} :
             \E source_losses \in {compute_epoch_source_losses(request,
                              sources_for_epoch(th.rel, epoch_id),
                              unfiltered_report,
                              Cardinality(DOMAIN th.relevant))} :
             \E check_status \in {EpochPds_deduct_budget(filters, capacities,
                              epoch_id, loss, source_losses,
                              report_uris(request), TRUE)} :
                /\ filters' = check_status.fs
                /\ last' =
                     IF check_status.status = "Continue"
                     THEN [last EXCEPT
                              !.thread[t].pc = "commit",
                              !.thread[t].loss = loss,
                              !.thread[t].source_losses = source_losses,
                              !.thread[t].seen = [filters |-> check_status.fs,
                                                  events |-> events]]
                     ELSE [last EXCEPT
                              !.thread[t].pc = NextTurn(request, th.i),
                              !.thread[t].rel = drop_epoch(th.rel, epoch_id),
                              !.thread[t].i = th.i + 1]
    /\ UNCHANGED <<capacities, events, ncalls>>

\* Phase 2 of the turn: the commit.  A commit that is refused returns an
\* error, which the method unwraps: the thread panics with the guard, and
\* the mutex is poisoned.
ServiceCommit ==
    /\ \E t \in ServiceThreads :
          /\ last.thread[t].pc = "commit"
          /\ \E th \in {last.thread[t]} :
             \E request \in {th.call.request} :
             \E consume_status \in {EpochPds_deduct_budget(filters,
                              capacities, epoch_ids(request)[th.i], th.loss,
                              th.source_losses, report_uris(request),
                              FALSE)} :
                /\ filters' = consume_status.fs
                /\ last' =
                     IF consume_status.status = "Continue"
                     THEN [last EXCEPT
                              !.thread[t].pc = NextTurn(request, th.i),
                              !.thread[t].i = th.i + 1]
                     ELSE [last EXCEPT !.thread[t].pc = "panicked",
                                       !.mutex = "poisoned"]
    /\ UNCHANGED <<capacities, events, ncalls>>

\* get_budget: the filter is created if the storage lacks it, and its
\* remaining budget is returned.
ServiceGetBudget ==
    /\ \E t \in ServiceThreads :
          /\ last.thread[t].pc = "locked"
          /\ last.thread[t].call.method = "getBudget"
          /\ \E fid \in {last.thread[t].call.filter_id} :
             \E fs \in {initialize_filter_if_necessary(filters, capacities,
                                                       fid)} :
                /\ filters' = fs
                /\ last' = [last EXCEPT
                       !.thread[t].pc = "unlock",
                       !.reported[fid] =
                           <<remaining_budget(fs, capacities, fid)>>]
    /\ UNCHANGED <<capacities, events, ncalls>>

\* clear_events, first assignment: a new event storage.
ServiceClearEventStorage ==
    /\ \E t \in ServiceThreads :
          /\ last.thread[t].pc = "locked"
          /\ last.thread[t].call.method = "clearEvents"
          /\ events' = [e \in Epochs |-> <<>>]
          /\ last' = [last EXCEPT !.thread[t].pc = "clear_filters"]
    /\ UNCHANGED <<capacities, filters, ncalls>>

\* clear_events, second assignment: a new filter storage.
ServiceClearFilterStorage ==
    /\ \E t \in ServiceThreads :
          /\ last.thread[t].pc = "clear_filters"
          /\ filters' = EmptyMap
          /\ last' = [last EXCEPT !.thread[t].pc = "unlock"]
    /\ UNCHANGED <<capacities, events, ncalls>>

\* The guard is dropped at the end of the method.
ServiceUnlock ==
    /\ \E t \in ServiceThreads :
          /\ last.thread[t].pc = "unlock"
          /\ last' = [last EXCEPT !.mutex = "unlocked",
                                  !.thread[t] = ThreadIdle]
    /\ UNCHANGED <<capacities, filters, events, ncalls>>

ServiceNext ==
    \/ ServiceCall
    \/ ServiceRegisterEvent
    \/ ServiceCollectEvents
    \/ ServiceDryRun
    \/ ServiceCommit
    \/ ServiceGetBudget
    \/ ServiceClearEventStorage
    \/ ServiceClearFilterStorage
    \/ ServiceUnlock

ServiceSpec == ServiceInit /\ [][ServiceNext]_vars

\* C35: of the threads that call the methods of the service at most one is
\* inside a method, it holds the mutex until the method ends, and between
\* the dry run and the commit of a turn of compute_report nothing has read
\* into or written the filter storage or the event storage: at the commit
\* both are as the dry run left them, and no commit is refused.
C35_MutualExclusion ==
    last.op = "service" =>
        /\ \A t \in ServiceThreads :
              /\ last.thread[t].pc # "idle" => last.mutex = t
              /\ last.thread[t].pc # "panicked"
              /\ last.thread[t].pc = "commit" =>
                    /\ filters = last.thread[t].seen.filters
                    /\ events = last.thread[t].seen.events
        /\ \A t, u \in ServiceThreads :
              (last.thread[t].pc # "idle" /\ last.thread[u].pc # "idle")
                  => t = u

\* A thread stands between the dry run and the commit of the second turn
\* of a report, after calls that stored events and filters, and the other
\* thread is outside every method.
C35_Witness ==
    /\ last.op = "service"
    /\ ncalls = MaxServiceCalls
    /\ \E t \in ServiceThreads :
          /\ last.thread[t].pc = "commit"
          /\ last.thread[t].i = 2
          /\ last.mutex = t
          /\ filters # EmptyMap
          /\ \A u \in ServiceThreads \ {t} : last.thread[u].pc = "idle"

\* The turn of the epoch loop in which the storage call failed, as the loop
\* makes it when no call fails.
FailingTurn ==
    core_compute_report(last.pre, capacities, last.request,
                        last.relevant_events).steps[last.failure.turn]

\* C36: when a storage error interrupts the commit of an epoch, either
\* every filter of the epoch's filter set has been debited by its loss or
\* none of them has.
C36_AllOrNothing ==
    (/\ last.op = "compute_report"
     /\ "failure" \in DOMAIN last
     /\ last.failure.phase = "commit") =>
        \A step \in {FailingTurn} :
            \/ \A fid \in DOMAIN step.to_consume :
                   SameBudget(step.before, filters, fid)
            \/ \A fid \in DOMAIN step.to_consume :
                   SameBudget(step.after, filters, fid)

(***************************************************************************)
(* Requests that list a URI several times, or one URI in several roles.    *)
(***************************************************************************)
\* Events of a site that is source, trigger and querier at once, and of
\* the source s1 for the same trigger and querier.
RepeatedUriEvents ==
    {PpaEvent(e, 1, "s1", {"t1"}, {"t1", "q1"}, 1) : e \in Epochs}
    \cup {PpaEvent(e, 2, "t1", {"t1"}, {"t1", "q1"}, 1) : e \in Epochs}

\* Reports for a querier that is the trigger site, over sources listed
\* twice or equal to the trigger site.
RepeatedUriRequests ==
    {PpaHistogramRequest_new_direct(1, e, 2, 2, 3,
         ReportRequestUris("t1", sources, <<>>, <<"t1">>), EmptyMap) :
        e \in {1, MaxEpoch},
        sources \in {<<"s1", "s1">>, <<"t1">>, <<"s1", "t1", "s1">>}}

\* Passive calls that list a querier twice, one of them the trigger site.
RepeatedUriPassiveRequests ==
    {PassivePrivacyLossRequest(ids, Epsilon(1),
         ReportRequestUris("t1", <<"s1", "s1">>, <<>>, queriers)) :
        ids \in {<<1>>, <<1, 1>>, <<1, MaxEpoch>>},
        queriers \in {<<"q1", "q1">>, <<"t1", "q1", "t1">>}}

RegisterRepeatedUriEvent ==
    /\ NumEvents < MaxEvents
    /\ \E event \in RepeatedUriEvents :
          events' = add_event(events, event)
    /\ UNCHANGED <<capacities, filters, last, ncalls>>

ComputeReportRepeatedUris ==
    /\ ncalls < MaxCalls
    /\ \E request \in RepeatedUriRequests :
          \E r \in {compute_report(filters, capacities, events, request)} :
             /\ filters' = r.fs
             /\ last' = [op |-> "compute_report", request |-> request,
                         pre |-> filters,
                         relevant_events |-> from_event_storage(events,
                             epoch_ids(request), request.selector),
                         outcome |-> r.outcome, steps |-> r.steps,
                         rel |-> r.rel, reports |-> r.reports]
    /\ ncalls' = ncalls + 1
    /\ UNCHANGED <<capacities, events>>

PassiveRepeatedUris ==
    /\ ncalls < MaxCalls
    /\ \E request \in RepeatedUriPassiveRequests :
          \E r \in {account_for_passive_privacy_loss(filters, capacities,
                                                     request)} :
             /\ filters' = r.fs
             /\ last' = [op |-> "passive", request |-> request,
                         pre |-> filters, outcome |-> r.outcome,
                         status |-> r.status, oob_filters |-> r.oob_filters,
                         steps |-> r.steps]
    /\ ncalls' = ncalls + 1
    /\ UNCHANGED <<capacities, events>>

RepeatedUrisNext ==
    \/ RegisterRepeatedUriEvent
    \/ ComputeReportRepeatedUris
    \/ PassiveRepeatedUris

RepeatedUrisSpec == Init /\ [][RepeatedUrisNext]_vars

\* The filter ids of the sites of these requests.
RepeatedUriFilterIds ==
    {Nc(e, u) : e \in Epochs, u \in {"q1", "t1"}}
    \cup {C(e) : e \in Epochs}
    \cup {QTrigger(e, u) : e \in Epochs, u \in {"q1", "t1", "s1"}}
    \cup {QSource(e, u) : e \in Epochs, u \in {"s1", "t1", "q1"}}

\* The loss the turn owes on the filter: the device-epoch loss, or the loss
\* of the source for a QSource filter.
LossOwed(step, fid) ==
    IF fid.kind = "QSource" THEN TurnSourceLosses(step)[fid.uri]
    ELSE TurnLoss(step)

\* C37: in a compute_report or passive call whose request lists a querier
\* or source URI several times, or has its trigger site as querier or
\* source, the filter set of a turn holds one entry for each distinct
\* querier, one for the trigger, one for the epoch and one for each distinct
\* source, and a turn that commits takes from each of them its loss once
\* and from no other filter; the turns follow one another on the storage.
C37_DebitedOncePerTurn ==
    IsEpochLoop =>
        /\ \A i \in DOMAIN last.steps :
              \A step \in {last.steps[i]} :
                  /\ Cardinality(DOMAIN step.to_consume)
                         = Cardinality(Range(LastUris.querier_uris)) + 2
                           + Cardinality(DOMAIN TurnSourceLosses(step))
                  /\ step.before = (IF i = 1 THEN last.pre
                                    ELSE last.steps[i - 1].after)
                  /\ \A fid \in RepeatedUriFilterIds \cup DOMAIN step.after :
                        \A before \in {remaining_budget(step.before,
                                           capacities, fid)} :
                            remaining_budget(step.after, capacities, fid)
                                = (IF /\ fid \in DOMAIN step.to_consume
                                      /\ step.status = "Continue"
                                      /\ ~before.inf
                                   THEN Epsilon(before.eps
                                                - LossOwed(step, fid).eps)
                                   ELSE before)
        /\ Len(last.steps) > 0 /\ last.outcome = "Ok" =>
              filters = last.steps[Len(last.steps)].after

\* A passive call that lists the trigger site twice among its queriers and
\* one epoch twice has committed both occurrences, and the Nc filter of the
\* trigger site has lost the budget of the call twice, its QTrigger filter
\* likewise.
C37_Witness ==
    /\ last.op = "passive"
    /\ last.request.epoch_ids = <<1, 1>>
    /\ last.request.uris.querier_uris = <<"t1", "q1", "t1">>
    /\ last.status = "Continue"
    /\ ~capacities.nc.inf
    /\ remaining_budget(filters, capacities, Nc(1, "t1"))
           = Epsilon(remaining_budget(last.pre, capacities, Nc(1, "t1")).eps
                     - 2)
    /\ Lowered(last.pre, filters, QTrigger(1, "t1"))

\* A report for the trigger site as querier over a source listed twice has
\* committed an epoch with a loss.
C37_WitnessReport ==
    /\ last.op = "compute_report"
    /\ last.outcome = "Ok"
    /\ Len(report_uris(last.request).source_uris) > 1
    /\ ~capacities.nc.inf
    /\ \E i \in DOMAIN last.steps :
          /\ last.steps[i].status = "Continue"
          /\ Lowered(last.pre, filters, Nc(last.steps[i].epoch_id, "t1"))
          /\ Lowered(last.pre, filters, QTrigger(last.steps[i].epoch_id, "t1"))
          /\ Lowered(last.pre, filters, QSource(last.steps[i].epoch_id, "s1"))

\* The storage of a device that never runs out of budget.
UnlimitedCapacities ==
    StaticCapacities_new(Infinite, Infinite, Infinite, Infinite)

\* C38: in every PdsReport that compute_report returns, unfiltered_report
\* is the report of the request over all its relevant events, the one the
\* call returns as filtered_report on a storage of unlimited budget,
\* whatever the filters hold; and a PdsReport whose oob_filters is empty has
\* its filtered_report equal to its unfiltered_report.
C38_UnfilteredReport ==
    (last.op = "compute_report" /\ last.outcome = "Ok") =>
        \A all \in {compute_histogram_report(last.request,
                                             last.relevant_events)} :
        \A unlimited \in {core_compute_report(EmptyMap, UnlimitedCapacities,
                              last.request, last.relevant_events)} :
            /\ DOMAIN unlimited.reports = DOMAIN last.reports
            /\ \A u \in DOMAIN last.reports :
                  /\ last.reports[u].unfiltered_report = all.uri_report_map[u]
                  /\ last.reports[u].unfiltered_report
                         = unlimited.reports[u].filtered_report
                  /\ last.reports[u].oob_filters = {} =>
                         last.reports[u].filtered_report
                             = last.reports[u].unfiltered_report

\* A report came back after an epoch that held attributed events was
\* dropped: it names the filters that were out of budget and its filtered
\* report has lost what its unfiltered report holds.
C38_Witness ==
    /\ last.op = "compute_report"
    /\ last.outcome = "Ok"
    /\ last.pre # EmptyMap
    /\ \E u \in DOMAIN last.reports :
          /\ last.reports[u].oob_filters # {}
          /\ last.reports[u].filtered_report
                 # last.reports[u].unfiltered_report
          /\ last.reports[u].unfiltered_report
                 = compute_histogram_report(last.request,
                       last.relevant_events).uri_report_map[u]

\* A report came back with no filter out of budget and a bucket filled.
C38_WitnessInBudget ==
    /\ last.op = "compute_report"
    /\ last.outcome = "Ok"
    /\ ~capacities.nc.inf
    /\ \E u \in DOMAIN last.reports :
          /\ last.reports[u].oob_filters = {}
          /\ last.reports[u].filtered_report
                 # compute_histogram_report(last.request,
                       EmptyMap).uri_report_map[u]

\* C39: over any sequence of calls on the Firefox service, the remaining
\* budget that getBudget reports for a filter id is never above the one it
\* reported for that id before.
C39_GetBudgetNeverIncreases ==
    [][(last.op = "service" /\ last'.op = "service") =>
          \A fid \in GetBudgetIds :
              Len(last.reported[fid]) > 0 =>
                  BudgetLeq(last'.reported[fid][1], last.reported[fid][1])]_vars


====
